---- MODULE Spec2Model ----
(***************************************************************************)
(* World of Bits: the dynamic-grid version of the game (the file with the  *)
(* viewport-driven cell lifecycle and the memento classes).                *)
(*                                                                         *)
(* World coordinates are integers counted in half tiles of 0.00005        *)
(* degrees, with the origin translated next to the classroom: the          *)
(* latitude x stands for the decimal number 36.9979 + 0.00005 * x and the  *)
(* longitude y for -122.0570 + 0.00005 * y.  A tile is TILE_DEGREES = 2    *)
(* units wide.  The cell index i stands for the index 369979 + i of the    *)
(* code and j for -1220570 + j; the keys and the seeds of luck are written *)
(* with the translated indices.  An odd coordinate is the middle of a      *)
(* tile, an even one is on the border of two tiles.  The player and the    *)
(* corners of the view are inside tiles (the classroom is 0.37 of a tile   *)
(* north of a border and 0.65 of a tile east of one): they have odd        *)
(* coordinates here.  The code computes in doubles, in which 0.0001 is not *)
(* a number: see worldToCell for the borders.  The bounds of a cell are     *)
(* the decimal numbers of its borders; the products of the code are within *)
(* one rounding of them.  luck() values are counted in hundredths, so that *)
(* SPAWN.PROBABILITY 0.15 is 15.                                           *)
(***************************************************************************)
EXTENDS Integers, Sequences, FiniteSets, Bags, TLC

VARIABLES
    activeCells,        \* Map<CellKey, GridCell>
    ghostCells,         \* bag of despawned GridCell objects that a pending
                        \* timer or a rectangle left on the map still references
    visibleCells,       \* gameState.visibleCells
    inventory,          \* gameState.player.inventory
    location,           \* gameState.player.location
    points,             \* gameState.player.points
    isVictoryAchieved,  \* gameState.isVictoryAchieved
    mementos,           \* CellCaretaker.mementos
    mapCenter,          \* centre of the leaflet map view
    moveendPending,     \* number of "moveend" events of the map not yet handled
    lastEvent,          \* the user input handled in the last step, if any
    inputs,             \* number of user inputs (clicks, moves, drags) so far
    despawnLog,         \* history: key -> token the cell held when last despawned
    modified            \* history: keys of the cells a pickup, drop or merge changed

vars == <<activeCells, ghostCells, visibleCells, inventory, location, points,
          isVictoryAchieved, mementos, mapCenter, moveendPending, lastEvent,
          inputs, despawnLog, modified>>

----------------------------------------------------------------------------
\* Bounds of the model

MaxInputs == 3
MaxTimers == 1
MaxPendingMoves == 1
MaxGhosts == 1
HalfViewLat == 1
HalfViewLng == 0
MaxCalls == 5
MaxFlashes == 2

----------------------------------------------------------------------------
\* CONFIG

TILE_DEGREES == 2
INTERACTION_RANGE == 3
VICTORY_THRESHOLD == 2048
VIEWPORT_BUFFER == 2
SPAWN_PROBABILITY == 15
SPAWN_RADIUS == 8
CLASSROOM_LAT == 1
CLASSROOM_LNG == -1
CLASSROOM_LOCATION == [lat |-> CLASSROOM_LAT, lng |-> CLASSROOM_LNG]
PanStride == 7

\* seeded fault: the table is walked from the largest value down
VALUE_DISTRIBUTION_descending == << <<4, 10>>, <<2, 30>>, <<1, 60>> >>

VALUE_DISTRIBUTION == << <<1, 60>>, <<2, 30>>, <<4, 10>> >>

CELL_STYLES ==
    [default      |-> [color |-> "#3388ff", weight |-> 1, fillOpacity |-> 1],
     withToken    |-> [color |-> "#ff3388", weight |-> 2, fillOpacity |-> 3],
     interactable |-> [color |-> "#33ff88", weight |-> 2, fillOpacity |-> 2],
     holdingToken |-> [color |-> "#ffaa00", weight |-> 3, fillOpacity |-> 4],
     mergeTarget  |-> [color |-> "#aa00ff", weight |-> 4, fillOpacity |-> 5]]

FEEDBACK_STYLES ==
    [pickup     |-> [color |-> "#00ff00", weight |-> 4],
     drop       |-> [color |-> "#00ffff", weight |-> 4],
     merge      |-> [color |-> "#aa00ff", weight |-> 5],
     invalid    |-> [color |-> "#ff0000", weight |-> 4],
     outOfRange |-> [color |-> "#888888", weight |-> 4]]

----------------------------------------------------------------------------
\* Values

NULL == [null |-> TRUE]
Token(v) == [value |-> v]

\* The element of a one-element set.  Only({e(x) : x \in {v}}) is e(v) with
\* v computed once and named x, as a statement sequence names its results.
Only(S) == CHOOSE x \in S : TRUE

Abs(x) == IF x < 0 THEN -x ELSE x
Max(a, b) == IF a >= b THEN a ELSE b

----------------------------------------------------------------------------
\* MEMENTO PATTERN IMPLEMENTATION
\* The store is a function from cell keys to mementos; now is Date.now().
\* A token is [value, id], id being the identity of the object: the copy
\* { ...token } is a new object, whose id is the parameter fresh.

createMemento(cellKey, token, now, fresh) ==
    [cellKey |-> cellKey,
     token |-> IF token # NULL THEN [value |-> token.value, id |-> fresh]
               ELSE NULL,
     timestamp |-> now]

\* seeded fault: the restored token has twice the value of the stored one
restoreFromMemento_doubles(memento, fresh) ==
    [token |-> IF memento.token # NULL
               THEN [value |-> memento.token.value * 2, id |-> fresh]
               ELSE NULL]

restoreFromMemento(memento, fresh) ==
    [token |-> IF memento.token # NULL
               THEN [value |-> memento.token.value, id |-> fresh]
               ELSE NULL]

\* seeded fault: an absent token is not saved
saveState_skipsEmpty(store, cellKey, token, now, fresh) ==
    IF token = NULL THEN store
    ELSE LET memento == createMemento(cellKey, token, now, fresh)
         IN  [k \in DOMAIN store \cup {cellKey} |->
                 IF k = cellKey THEN memento ELSE store[k]]

\* seeded fault: a key that has a snapshot keeps it
saveState_keepsFirst(store, cellKey, token, now, fresh) ==
    LET memento == createMemento(cellKey, token, now, fresh)
    IN  [k \in DOMAIN store \cup {cellKey} |->
            IF k \in DOMAIN store THEN store[k] ELSE memento]

saveState(store, cellKey, token, now, fresh) ==
    LET memento == createMemento(cellKey, token, now, fresh)
    IN  [k \in DOMAIN store \cup {cellKey} |->
            IF k = cellKey THEN memento ELSE store[k]]

restoreState(store, cellKey, fresh) ==
    IF cellKey \notin DOMAIN store THEN NULL
    ELSE restoreFromMemento(store[cellKey], fresh).token

hasState(store, cellKey) == cellKey \in DOMAIN store

\* seeded fault: the whole store is cleared
clearState_clearsAll(store, cellKey) ==
    IF cellKey \in DOMAIN store THEN <<>> ELSE store

\* getAllStates(): a new Map with the memento objects of the store
\* themselves, token objects included
getAllStates(store) == store

clearState(store, cellKey) ==
    [k \in DOMAIN store \ {cellKey} |-> store[k]]

----------------------------------------------------------------------------
\* COORDINATE CONVERSION

\* The latitudes between -120 and 120 for which the double quotient
\* lat / 1e-4 of the code is below the integer it stands for: each is on a
\* tile border, and Math.floor returns the tile south of the border
\* (36.998 / 1e-4 is 369979.99999999994).  For every other latitude and for
\* every longitude between -120 and 120 the floor of the double quotient is
\* the floor of the exact one.
LAT_QUOTIENT_ROUNDED_BELOW ==
    {-118, -114, -100, -96, -92, -88, -84, -80, -70, -66, -62, -58, -54, -50,
     -36, -32, -28, -24, -20, -6, -2, 2, 6, 10, 24, 28, 32, 36, 40, 54, 58,
     62, 66, 70, 84, 88, 92, 96, 100, 114, 118}

\* Math.floor(lat / TILE_DEGREES) and Math.floor(lng / TILE_DEGREES), the
\* quotients being the double quotients of the code
worldToCell(lat, lng) ==
    [i |-> IF lat \in LAT_QUOTIENT_ROUNDED_BELOW
           THEN (lat \div TILE_DEGREES) - 1
           ELSE lat \div TILE_DEGREES,
     j |-> lng \div TILE_DEGREES]

cellToWorldBounds(i, j) ==
    [southWest |-> [lat |-> i * TILE_DEGREES, lng |-> j * TILE_DEGREES],
     northEast |-> [lat |-> (i + 1) * TILE_DEGREES, lng |-> (j + 1) * TILE_DEGREES]]

cellToKey(i, j) == ToString(i) \o "," \o ToString(j)

\* seeded fault: the sum of the two differences, not the larger one
cellDistance_manhattan(cell1, cell2) ==
    Abs(cell1.i - cell2.i) + Abs(cell1.j - cell2.j)

cellDistance(cell1, cell2) ==
    Max(Abs(cell1.i - cell2.i), Abs(cell1.j - cell2.j))

----------------------------------------------------------------------------
\* The seed function luck(seed), in hundredths.  It is fixed for a run: the
\* seeds listed here roll what is listed, every other seed rolls 50.

LuckRolls ==
    ("1,-1" :> 5) @@ ("1,-1,value" :> 10) @@
    ("0,0" :> 14) @@ ("0,0,value" :> 59) @@
    ("-1,-2" :> 0) @@ ("-1,-2,value" :> 60) @@
    ("2,-3" :> 15) @@ ("2,-3,value" :> 0) @@
    ("-2,1" :> 7) @@ ("-2,1,value" :> 99) @@
    ("9,-1" :> 3) @@ ("9,-1,value" :> 89)

luck(seed) == IF seed \in DOMAIN LuckRolls THEN LuckRolls[seed] ELSE 50

----------------------------------------------------------------------------
\* The game state the handlers work on, as one record

GameOf(ac, gc, vc, inv, loc, pts, vic) ==
    [activeCells |-> ac, ghostCells |-> gc, visibleCells |-> vc,
     inventory |-> inv, location |-> loc, points |-> pts,
     isVictoryAchieved |-> vic, target |-> [null |-> TRUE]]

Game == GameOf(activeCells, ghostCells, visibleCells, inventory, location,
               points, isVictoryAchieved)

----------------------------------------------------------------------------
\* Token objects.  A token is [value, id]: id is the identity of the object
\* ({ value: v } allocates a new object), so that two references to one
\* object are two records with one id.  An object literal takes the smallest
\* id that no object reachable from the game has.

UsedIds(g) ==
    {g.activeCells[k].token.id :
        k \in {x \in DOMAIN g.activeCells : g.activeCells[x].token # NULL}}
    \cup {c.token.id : c \in {x \in BagToSet(g.ghostCells) : x.token # NULL}}
    \cup (IF g.inventory # NULL THEN {g.inventory.id} ELSE {})
    \cup (IF g.target # NULL /\ g.target.token # NULL
          THEN {g.target.token.id} ELSE {})

\* the n-th natural number (from 0) that is not in used
NthFree(used, n) ==
    CHOOSE x \in 0..(Cardinality(used) + n) :
        /\ x \notin used
        /\ Cardinality({y \in 0..(x - 1) : y \notin used}) = n

\* the n-th id (from 0) that is free in g
NthFreeId(g, n) == NthFree(UsedIds(g), n)

NewToken(g, v) == [value |-> v, id |-> NthFreeId(g, 0)]

----------------------------------------------------------------------------
\* TOKEN SPAWNING

\* seeded fault: the radius is not tested
shouldSpawnToken_anywhere(g, i, j) ==
    luck(ToString(i) \o "," \o ToString(j)) < SPAWN_PROBABILITY

shouldSpawnToken(g, i, j) ==
    LET playerCell == worldToCell(g.location.lat, g.location.lng)
        distance == cellDistance(playerCell, [i |-> i, j |-> j])
        withinSpawnRadius == distance <= SPAWN_RADIUS
    IN  IF ~withinSpawnRadius THEN FALSE
        ELSE luck(ToString(i) \o "," \o ToString(j)) < SPAWN_PROBABILITY

RECURSIVE walkDistribution(_, _, _)
walkDistribution(valueRoll, n, cumulativeProbability) ==
    IF n > Len(VALUE_DISTRIBUTION) THEN 1
    ELSE LET cumulative == cumulativeProbability + VALUE_DISTRIBUTION[n][2]
         IN  IF valueRoll < cumulative THEN VALUE_DISTRIBUTION[n][1]
             ELSE walkDistribution(valueRoll, n + 1, cumulative)

determineTokenValue(i, j) ==
    LET valueRoll == luck(ToString(i) \o "," \o ToString(j) \o ",value")
    IN  walkDistribution(valueRoll, 1, 0)

\* seeded fault: nothing is spawned while the player holds a token
spawnTokenInCell_emptyHanded(g, i, j) ==
    IF ~shouldSpawnToken(g, i, j) \/ g.inventory # NULL THEN NULL
    ELSE NewToken(g, determineTokenValue(i, j))

spawnTokenInCell(g, i, j) ==
    IF ~shouldSpawnToken(g, i, j) THEN NULL
    ELSE NewToken(g, determineTokenValue(i, j))

----------------------------------------------------------------------------
\* A GridCell object is [i, j, token, element, timers]: element is the
\* leaflet rectangle the cell holds, [style, tooltip, permanent, onMap], and
\* timers counts the pending provideVisualFeedback callbacks that captured
\* the object.  A handler names the object it works on by a reference: the
\* key of an active cell, or the despawned object taken out of ghostCells
\* (held in the field target of the game record while the handler runs).

ActiveRef(key) == [ghost |-> FALSE, key |-> key]
GhostRef == [ghost |-> TRUE, key |-> ""]

CellAt(g, ref) == IF ref.ghost THEN g.target ELSE g.activeCells[ref.key]

PutCell(g, ref, cell) ==
    IF ref.ghost THEN [g EXCEPT !.target = cell]
    ELSE [g EXCEPT !.activeCells[ref.key] = cell]

----------------------------------------------------------------------------
\* GAME LOGIC

\* seeded fault: the range check is off by one cell
isCellInteractable_offByOne(g, cell) ==
    LET playerCell == worldToCell(g.location.lat, g.location.lng)
        distance == cellDistance(playerCell, [i |-> cell.i, j |-> cell.j])
    IN  distance <= INTERACTION_RANGE + 1

isCellInteractable(g, cell) ==
    LET playerCell == worldToCell(g.location.lat, g.location.lng)
        distance == cellDistance(playerCell, [i |-> cell.i, j |-> cell.j])
    IN  distance <= INTERACTION_RANGE

hasToken(cell) == cell.token # NULL

isPlayerHoldingToken(g) == g.inventory # NULL

isMergeTarget(g, cell) ==
    /\ isCellInteractable(g, cell)
    /\ hasToken(cell)
    /\ isPlayerHoldingToken(g)
    /\ g.inventory.value = cell.token.value

\* seeded fault: a smaller held token merges into a larger one
canMergeTokens_atMost(heldToken, cellToken) ==
    heldToken.value <= cellToken.value

canMergeTokens(heldToken, cellToken) == heldToken.value = cellToken.value

----------------------------------------------------------------------------
\* VISUALIZATION

getCellStyle(g, cell) ==
    LET baseStyle == CELL_STYLES.default
        s1 == IF isMergeTarget(g, cell) THEN CELL_STYLES.mergeTarget
              ELSE IF hasToken(cell) THEN CELL_STYLES.withToken
              ELSE baseStyle
        s2 == IF isCellInteractable(g, cell) THEN CELL_STYLES.interactable
              ELSE s1
        s3 == IF isPlayerHoldingToken(g) /\ isCellInteractable(g, cell)
                 /\ ~isMergeTarget(g, cell)
              THEN CELL_STYLES.holdingToken
              ELSE s2
    IN  s3

createTooltipContent(g, cell) ==
    IF isMergeTarget(g, cell) /\ g.inventory # NULL /\ cell.token # NULL
    THEN "Merge: " \o ToString(g.inventory.value) \o " + "
         \o ToString(cell.token.value) \o " = "
         \o ToString(g.inventory.value * 2)
    ELSE IF hasToken(cell) /\ cell.token # NULL
    THEN ToString(cell.token.value)
    ELSE ""

getTooltipOptions(g, cell) ==
    \/ hasToken(cell)
    \/ (isPlayerHoldingToken(g) /\ isCellInteractable(g, cell))
    \/ isMergeTarget(g, cell)

createCellElement(g, cell) ==
    [style |-> getCellStyle(g, cell),
     tooltip |-> createTooltipContent(g, cell),
     permanent |-> getTooltipOptions(g, cell),
     onMap |-> TRUE]

\* seeded fault: re-rendering a cell clears its token
updateCellVisualization_dropsToken(g, ref) ==
    LET cell == CellAt(g, ref)
    IN  PutCell(g, ref, [cell EXCEPT !.token = NULL,
                                     !.element = createCellElement(g, cell)])

\* seeded fault: re-rendering a cell keeps the style its rectangle has
updateCellVisualization_keepsStyle(g, ref) ==
    LET cell == CellAt(g, ref)
    IN  PutCell(g, ref,
            [cell EXCEPT !.element =
                [createCellElement(g, cell) EXCEPT !.style = cell.element.style]])

updateCellVisualization(g, ref) ==
    LET cell == CellAt(g, ref)
    IN  PutCell(g, ref, [cell EXCEPT !.element = createCellElement(g, cell)])

updateInteractionRangeDisplay(g) ==
    [g EXCEPT !.activeCells =
        [k \in DOMAIN g.activeCells |->
            [g.activeCells[k] EXCEPT
                !.element = createCellElement(g, g.activeCells[k])]]]

----------------------------------------------------------------------------
\* MERGING

\* seeded fault: the new value is the held value plus two, not times two
mergeTokens_plusTwo(g, heldToken, cellToken) ==
    LET newValue == heldToken.value + 2
    IN  [game |-> [g EXCEPT !.points = g.points + newValue],
         token |-> NewToken(g, newValue)]

\* seeded fault: the points grow by the value of the held token
mergeTokens_heldValuePoints(g, heldToken, cellToken) ==
    LET newValue == heldToken.value * 2
    IN  [game |-> [g EXCEPT !.points = g.points + heldToken.value],
         token |-> NewToken(g, newValue)]

mergeTokens(g, heldToken, cellToken) ==
    LET newValue == heldToken.value * 2
    IN  [game |-> [g EXCEPT !.points = g.points + newValue],
         token |-> NewToken(g, newValue)]

\* seeded fault: the threshold itself does not win
checkVictoryCondition_above(g, newToken) ==
    IF newToken.value > VICTORY_THRESHOLD /\ ~g.isVictoryAchieved
    THEN [g EXCEPT !.isVictoryAchieved = TRUE]
    ELSE g

\* seeded fault: the flag is assigned the outcome of the comparison
checkVictoryCondition_assigned(g, newToken) ==
    [g EXCEPT !.isVictoryAchieved = newToken.value >= VICTORY_THRESHOLD]

checkVictoryCondition(g, newToken) ==
    IF newToken.value >= VICTORY_THRESHOLD /\ ~g.isVictoryAchieved
    THEN [g EXCEPT !.isVictoryAchieved = TRUE]
    ELSE g

attemptMerge(g, ref) ==
    LET cell == CellAt(g, ref)
    IN  IF g.inventory = NULL \/ cell.token = NULL
        THEN [game |-> g, ret |-> FALSE]
        ELSE IF ~canMergeTokens(g.inventory, cell.token)
        THEN [game |-> g, ret |-> FALSE]
        ELSE LET m == mergeTokens(g, g.inventory, cell.token)
                 g1 == PutCell(m.game, ref, [cell EXCEPT !.token = m.token])
             IN  Only({[game |-> checkVictoryCondition(g3, m.token),
                        ret |-> TRUE] :
                          g3 \in {updateCellVisualization(g2, ref) :
                                     g2 \in {[g1 EXCEPT !.inventory = NULL]}}})

----------------------------------------------------------------------------
\* INVENTORY MANAGEMENT

canPickupToken(g, cell) ==
    isCellInteractable(g, cell) /\ hasToken(cell) /\ ~isPlayerHoldingToken(g)

\* seeded fault: the token is copied to the inventory and stays in the cell
pickupTokenFromCell_keepsToken(g, ref) ==
    LET cell == CellAt(g, ref)
    IN  IF ~canPickupToken(g, cell) THEN g
        ELSE Only({updateCellVisualization(g1, ref) :
                      g1 \in {[g EXCEPT !.inventory = cell.token]}})

\* seeded fault: a pickup earns the value of the token picked up
pickupTokenFromCell_scores(g, ref) ==
    LET cell == CellAt(g, ref)
    IN  IF ~canPickupToken(g, cell) THEN g
        ELSE LET g1 == [g EXCEPT !.inventory = cell.token,
                                 !.points = g.points + cell.token.value]
             IN  Only({updateCellVisualization(g2, ref) :
                          g2 \in {PutCell(g1, ref, [cell EXCEPT !.token = NULL])}})

pickupTokenFromCell(g, ref) ==
    LET cell == CellAt(g, ref)
    IN  IF ~canPickupToken(g, cell) THEN g
        ELSE LET g1 == [g EXCEPT !.inventory = cell.token]
             IN  Only({updateCellVisualization(g2, ref) :
                          g2 \in {PutCell(g1, ref, [cell EXCEPT !.token = NULL])}})

\* seeded fault: the dropped token stays in the inventory
dropTokenToCell_keepsInventory(g, ref) ==
    LET cell == CellAt(g, ref)
    IN  IF ~isCellInteractable(g, cell) \/ g.inventory = NULL
        THEN [game |-> g, ret |-> FALSE]
        ELSE IF cell.token # NULL
        THEN attemptMerge(g, ref)
        ELSE Only({[game |-> updateCellVisualization(g1, ref), ret |-> TRUE] :
                      g1 \in {PutCell(g, ref,
                                      [cell EXCEPT !.token = g.inventory])}})

\* seeded fault: a drop earns the value of the token dropped
dropTokenToCell_scores(g, ref) ==
    LET cell == CellAt(g, ref)
    IN  IF ~isCellInteractable(g, cell) \/ g.inventory = NULL
        THEN [game |-> g, ret |-> FALSE]
        ELSE IF cell.token # NULL
        THEN attemptMerge(g, ref)
        ELSE LET g1 == PutCell(g, ref, [cell EXCEPT !.token = g.inventory])
             IN  Only({[game |-> updateCellVisualization(g2, ref),
                        ret |-> TRUE] :
                          g2 \in {[g1 EXCEPT !.inventory = NULL,
                                             !.points = g.points + g.inventory.value]}})

dropTokenToCell(g, ref) ==
    LET cell == CellAt(g, ref)
    IN  IF ~isCellInteractable(g, cell) \/ g.inventory = NULL
        THEN [game |-> g, ret |-> FALSE]
        ELSE IF cell.token # NULL
        THEN attemptMerge(g, ref)
        ELSE LET g1 == PutCell(g, ref, [cell EXCEPT !.token = g.inventory])
             IN  Only({[game |-> updateCellVisualization(g2, ref),
                        ret |-> TRUE] :
                          g2 \in {[g1 EXCEPT !.inventory = NULL]}})

----------------------------------------------------------------------------
\* CELL INTERACTION

provideVisualFeedback(g, ref, action) ==
    LET cell == CellAt(g, ref)
        flash == FEEDBACK_STYLES[action]
    IN  IF cell.element = NULL THEN g
        ELSE PutCell(g, ref,
                 [cell EXCEPT !.element.style.color = flash.color,
                              !.element.style.weight = flash.weight,
                              !.timers = cell.timers + 1])

\* seeded fault: the second branch forgets to test that the cell has a token, so
\* that a click on an empty cell with a held token attempts a merge
handleCellClick_mergeWheneverHolding(g, ref) ==
    LET cell == CellAt(g, ref)
    IN  IF ~isCellInteractable(g, cell)
        THEN [game |-> provideVisualFeedback(g, ref, "outOfRange"),
              action |-> "outOfRange"]
        ELSE Only({
               Only({[game |-> IF r.success
                               THEN updateInteractionRangeDisplay(g1) ELSE g1,
                      action |-> r.action] :
                        g1 \in {provideVisualFeedback(r.game, ref, r.action)}}) :
               r \in {IF hasToken(cell) /\ ~isPlayerHoldingToken(g)
                      THEN [game |-> pickupTokenFromCell(g, ref),
                            action |-> "pickup", success |-> TRUE]
                      ELSE IF isPlayerHoldingToken(g)
                      THEN Only({[game |-> m.game,
                                  action |-> IF m.ret THEN "merge" ELSE "invalid",
                                  success |-> m.ret] :
                                    m \in {attemptMerge(g, ref)}})
                      ELSE [game |-> g, action |-> "invalid",
                            success |-> FALSE]}})

handleCellClick(g, ref) ==
    LET cell == CellAt(g, ref)
    IN  IF ~isCellInteractable(g, cell)
        THEN [game |-> provideVisualFeedback(g, ref, "outOfRange"),
              action |-> "outOfRange"]
        ELSE Only({
               Only({[game |-> IF r.success
                               THEN updateInteractionRangeDisplay(g1) ELSE g1,
                      action |-> r.action] :
                        g1 \in {provideVisualFeedback(r.game, ref, r.action)}}) :
               r \in {IF hasToken(cell) /\ ~isPlayerHoldingToken(g)
                      THEN [game |-> pickupTokenFromCell(g, ref),
                            action |-> "pickup", success |-> TRUE]
                      ELSE IF hasToken(cell) /\ isPlayerHoldingToken(g)
                      THEN Only({[game |-> m.game,
                                  action |-> IF m.ret THEN "merge" ELSE "invalid",
                                  success |-> m.ret] :
                                    m \in {attemptMerge(g, ref)}})
                      ELSE IF ~hasToken(cell) /\ isPlayerHoldingToken(g)
                      THEN Only({[game |-> d.game,
                                  action |-> IF d.ret THEN "drop" ELSE "invalid",
                                  success |-> d.ret] :
                                    d \in {dropTokenToCell(g, ref)}})
                      ELSE [game |-> g, action |-> "invalid",
                            success |-> FALSE]}})

----------------------------------------------------------------------------
\* CELL MANAGEMENT

isCellActive(g, cellKey) == cellKey \in DOMAIN g.activeCells

\* activeCells.set replaces the object registered under an active key: the
\* object replaced keeps its rectangle, which stays on the map
spawnCell(g, i, j) ==
    LET token == spawnTokenInCell(g, i, j)
        newCell == [i |-> i, j |-> j, token |-> token, element |-> NULL,
                    timers |-> 0]
        cell == [newCell EXCEPT !.element = createCellElement(g, newCell)]
        cellKey == cellToKey(i, j)
        replaced == IF cellKey \in DOMAIN g.activeCells
                    THEN SetToBag({g.activeCells[cellKey]})
                    ELSE EmptyBag
    IN  [g EXCEPT !.activeCells = (cellKey :> cell) @@ g.activeCells,
                  !.visibleCells = g.visibleCells \cup {cellKey},
                  !.ghostCells = g.ghostCells (+) replaced]

getOrCreateCell(g, i, j) ==
    IF cellToKey(i, j) \in DOMAIN g.activeCells THEN g ELSE spawnCell(g, i, j)

\* seeded fault: a despawned key stays in gameState.visibleCells
despawnCells_keepsVisible(g, keys) ==
    LET gone == keys \cap DOMAIN g.activeCells
        kept == {[g.activeCells[k] EXCEPT !.element.onMap = FALSE] :
                    k \in {x \in gone : g.activeCells[x].timers > 0}}
    IN  [g EXCEPT
            !.activeCells = [k \in DOMAIN g.activeCells \ gone |->
                                g.activeCells[k]],
            !.ghostCells = g.ghostCells (+) SetToBag(kept)]

\* despawnCell for every key of the set keys.  A despawned object that a
\* pending timer still references stays reachable (with its rectangle off
\* the map); any other despawned object is garbage.
despawnCells(g, keys) ==
    LET gone == keys \cap DOMAIN g.activeCells
        kept == {[g.activeCells[k] EXCEPT !.element.onMap = FALSE] :
                    k \in {x \in gone : g.activeCells[x].timers > 0}}
    IN  [g EXCEPT
            !.activeCells = [k \in DOMAIN g.activeCells \ gone |->
                                g.activeCells[k]],
            !.visibleCells = g.visibleCells \ gone,
            !.ghostCells = g.ghostCells (+) SetToBag(kept)]

despawnCell(g, cellKey) == despawnCells(g, {cellKey})

\* every rectangle is removed and both collections are cleared; as in
\* despawnCell, an object that a pending timer references stays reachable
cleanupAllCells(g) == despawnCells(g, DOMAIN g.activeCells)

----------------------------------------------------------------------------
\* GRID VISIBILITY MANAGEMENT

\* map.getBounds(): the view reaches HalfViewLat / HalfViewLng tiles from its
\* centre, so that its corners are inside tiles as its centre is
\* seeded fault: the buffer is left out on the north-east side
getVisibleCellRange_noBufferAtMax(center) ==
    LET minCell == worldToCell(center.lat - HalfViewLat * TILE_DEGREES,
                               center.lng - HalfViewLng * TILE_DEGREES)
        maxCell == worldToCell(center.lat + HalfViewLat * TILE_DEGREES,
                               center.lng + HalfViewLng * TILE_DEGREES)
        buffer == VIEWPORT_BUFFER
    IN  [minI |-> minCell.i - buffer, maxI |-> maxCell.i,
         minJ |-> minCell.j - buffer, maxJ |-> maxCell.j]

getVisibleCellRange(center) ==
    LET minCell == worldToCell(center.lat - HalfViewLat * TILE_DEGREES,
                               center.lng - HalfViewLng * TILE_DEGREES)
        maxCell == worldToCell(center.lat + HalfViewLat * TILE_DEGREES,
                               center.lng + HalfViewLng * TILE_DEGREES)
        buffer == VIEWPORT_BUFFER
    IN  [minI |-> minCell.i - buffer, maxI |-> maxCell.i + buffer,
         minJ |-> minCell.j - buffer, maxJ |-> maxCell.j + buffer]

\* the game with the cells of a set of <<key, cell>> pairs added to it
WithCells(g, pairs) ==
    LET keys == {p[1] : p \in pairs}
    IN  [g EXCEPT
            !.activeCells =
                [k \in keys \cup DOMAIN g.activeCells |->
                    IF k \in keys THEN (CHOOSE p \in pairs : p[1] = k)[2]
                    ELSE g.activeCells[k]],
            !.visibleCells = g.visibleCells \cup keys]

\* the cell getOrCreateCell(i, j) creates when n tokens were created before
\* it in the same pass
createdCell(g, i, j, n) ==
    LET cell == getOrCreateCell(g, i, j).activeCells[cellToKey(i, j)]
    IN  IF cell.token = NULL THEN cell
        ELSE [cell EXCEPT !.token.id = NthFreeId(g, n)]

\* seeded fault: the first loop spawns every cell of the range anew, the
\* active ones included
updateCellVisibility_respawnsAll(g, center) ==
    LET visibleRange == getVisibleCellRange(center)
        coords == (visibleRange.minI..visibleRange.maxI)
                  \X (visibleRange.minJ..visibleRange.maxJ)
        currentlyVisible == {cellToKey(c[1], c[2]) : c \in coords}
        created ==
            {<<cellToKey(c[1], c[2]),
               spawnCell(g, c[1], c[2]).activeCells[cellToKey(c[1], c[2])]>> :
                c \in coords}
    IN  Only({despawnCells(g1, DOMAIN g1.activeCells \ currentlyVisible) :
                 g1 \in {WithCells(g, created)}})

\* The first loop creates every cell of the range that is not active, by
\* rows and in a row by columns (an iteration reads the player and the
\* inventory, and takes the next free token object, so it depends on the
\* earlier iterations by the number of tokens they created only); the second
\* loop despawns every active cell whose key is not in the range.
updateCellVisibility(g, center) ==
    LET visibleRange == getVisibleCellRange(center)
        coords == (visibleRange.minI..visibleRange.maxI)
                  \X (visibleRange.minJ..visibleRange.maxJ)
        currentlyVisible == {cellToKey(c[1], c[2]) : c \in coords}
        missing == {x \in coords : ~isCellActive(g, cellToKey(x[1], x[2]))}
        spawning == {x \in missing : shouldSpawnToken(g, x[1], x[2])}
        created ==
            {<<cellToKey(c[1], c[2]),
               createdCell(g, c[1], c[2],
                   Cardinality({d \in spawning :
                       d[1] < c[1] \/ (d[1] = c[1] /\ d[2] < c[2])}))>> :
                c \in missing}
    IN  Only({despawnCells(g1, DOMAIN g1.activeCells \ currentlyVisible) :
                 g1 \in {WithCells(g, created)}})

handleMapMove(g, center) ==
    Only({updateInteractionRangeDisplay(g1) :
             g1 \in {updateCellVisibility(g, center)}})

----------------------------------------------------------------------------
\* PLAYER MOVEMENT

\* seeded fault: a step is half a tile long
movePlayer_halfTile(g, direction) ==
    LET lat == g.location.lat
        lng == g.location.lng
        newLat == CASE direction = "north" -> lat + TILE_DEGREES \div 2
                    [] direction = "south" -> lat - TILE_DEGREES \div 2
                    [] direction = "center" -> CLASSROOM_LOCATION.lat
                    [] OTHER -> lat
        newLng == CASE direction = "east" -> lng + TILE_DEGREES \div 2
                    [] direction = "west" -> lng - TILE_DEGREES \div 2
                    [] direction = "center" -> CLASSROOM_LOCATION.lng
                    [] OTHER -> lng
    IN  [g EXCEPT !.location = [lat |-> newLat, lng |-> newLng]]

movePlayer(g, direction) ==
    LET lat == g.location.lat
        lng == g.location.lng
        newLat == CASE direction = "north" -> lat + TILE_DEGREES
                    [] direction = "south" -> lat - TILE_DEGREES
                    [] direction = "center" -> CLASSROOM_LOCATION.lat
                    [] OTHER -> lat
        newLng == CASE direction = "east" -> lng + TILE_DEGREES
                    [] direction = "west" -> lng - TILE_DEGREES
                    [] direction = "center" -> CLASSROOM_LOCATION.lng
                    [] OTHER -> lng
    IN  [g EXCEPT !.location = [lat |-> newLat, lng |-> newLng]]

Directions == {"north", "south", "east", "west", "center"}

----------------------------------------------------------------------------
\* INITIALIZATION

NoInput == [type |-> "none"]

InitialGame ==
    GameOf(<<>>, EmptyBag, {}, NULL, CLASSROOM_LOCATION, 0, FALSE)

\* initializeGame: the map is created centred on the classroom, then
\* cleanupAllCells and updateCellVisibility run before "moveend" is bound
initializeGame ==
    updateCellVisibility(cleanupAllCells(InitialGame), CLASSROOM_LOCATION)

Init ==
    /\ activeCells = initializeGame.activeCells
    /\ ghostCells = initializeGame.ghostCells
    /\ visibleCells = initializeGame.visibleCells
    /\ inventory = initializeGame.inventory
    /\ location = initializeGame.location
    /\ points = initializeGame.points
    /\ isVictoryAchieved = initializeGame.isVictoryAchieved
    /\ mementos = <<>>
    /\ mapCenter = CLASSROOM_LOCATION
    /\ moveendPending = 0
    /\ lastEvent = NoInput
    /\ inputs = 0
    /\ despawnLog = <<>>
    /\ modified = {}

\* the handlers leave their result in the variables of the game
SetGame(g) ==
    /\ activeCells' = g.activeCells
    /\ ghostCells' = g.ghostCells
    /\ visibleCells' = g.visibleCells
    /\ inventory' = g.inventory
    /\ location' = g.location
    /\ points' = g.points
    /\ isVictoryAchieved' = g.isVictoryAchieved

\* number of provideVisualFeedback callbacks that have not fired yet
PendingTimers ==
    Cardinality(UNION {{<<k, n>> : n \in 1..activeCells[k].timers} :
                          k \in DOMAIN activeCells})
    + Cardinality(UNION {{<<c, n, m>> : n \in 1..c.timers,
                                        m \in 1..CopiesIn(c, ghostCells)} :
                            c \in BagToSet(ghostCells)})

----------------------------------------------------------------------------
\* The events of the page

\* A cell object despawned while a feedback callback is pending stays
\* reachable.  The user's inputs are bounded so that this happens to at most
\* MaxGhosts objects: once that many exist, the user clicks only while no
\* "moveend" is pending and moves the map only while no callback is pending.
GhostsLeft == BagCardinality(ghostCells) < MaxGhosts

\* the model handles MaxInputs user inputs, and a click only while fewer
\* than MaxTimers feedback callbacks are pending
CanClick ==
    /\ inputs < MaxInputs
    /\ PendingTimers < MaxTimers
    /\ GhostsLeft \/ moveendPending = 0

\* at most MaxPendingMoves map movements wait for their "moveend"
CanMoveMap ==
    /\ inputs < MaxInputs
    /\ moveendPending < MaxPendingMoves
    /\ GhostsLeft \/ PendingTimers = 0

\* what a click leaves behind: the game g, and the record of the click
Clicked(g, key, ghost, action, before, after) ==
    /\ SetGame(g)
    /\ lastEvent' = [type |-> "click", key |-> key, ghost |-> ghost,
                     action |-> action, before |-> before, after |-> after]
    /\ modified' = IF action \in {"pickup", "drop", "merge"}
                   THEN modified \cup {key} ELSE modified
    /\ inputs' = inputs + 1

\* a click on the rectangle of the active cell registered under key
ClickActive(key) ==
    /\ key \in DOMAIN activeCells
    /\ activeCells[key].element.onMap
    /\ \E r \in {handleCellClick(Game, ActiveRef(key))} :
          Clicked(r.game, key, FALSE, r.action, activeCells[key],
                  r.game.activeCells[key])
    /\ UNCHANGED <<mementos, mapCenter, moveendPending, despawnLog>>

\* a click on a rectangle that a despawned cell object left on the map
ClickGhost(cell) ==
    /\ BagIn(cell, ghostCells)
    /\ cell.element.onMap
    /\ \E g0 \in {[Game EXCEPT
                        !.ghostCells = ghostCells (-) SetToBag({cell}),
                        !.target = cell]} :
       \E r \in {handleCellClick(g0, GhostRef)} :
          Clicked([r.game EXCEPT
                     !.ghostCells = r.game.ghostCells
                                    (+) SetToBag({r.game.target})],
                  cellToKey(cell.i, cell.j), TRUE, r.action, cell,
                  r.game.target)
    /\ UNCHANGED <<mementos, mapCenter, moveendPending, despawnLog>>

\* the callback of provideVisualFeedback fires for an active cell object
FeedbackTimerActive(key) ==
    /\ key \in DOMAIN activeCells
    /\ activeCells[key].timers > 0
    /\ \E g0 \in {[Game EXCEPT !.activeCells[key].timers = @ - 1]} :
          SetGame(updateCellVisualization(g0, ActiveRef(key)))
    /\ lastEvent' = NoInput
    /\ UNCHANGED <<mementos, mapCenter, moveendPending, inputs, despawnLog,
                   modified>>

\* the callback fires for a cell object that was despawned in the meantime
FeedbackTimerGhost(cell) ==
    /\ BagIn(cell, ghostCells)
    /\ cell.timers > 0
    /\ \E g0 \in {[Game EXCEPT
                        !.ghostCells = ghostCells (-) SetToBag({cell}),
                        !.target = [cell EXCEPT !.timers = @ - 1]]} :
       \E g1 \in {updateCellVisualization(g0, GhostRef)} :
          SetGame([g1 EXCEPT
                     !.ghostCells = g1.ghostCells (+) SetToBag({g1.target})])
    /\ lastEvent' = NoInput
    /\ UNCHANGED <<mementos, mapCenter, moveendPending, inputs, despawnLog,
                   modified>>

\* a movement button: movePlayer, whose map.setView recentres the map and
\* makes leaflet fire "moveend" when the pan has ended
MovePlayer(direction) ==
    /\ CanMoveMap
    /\ \E g \in {movePlayer(Game, direction)} :
          /\ SetGame(g)
          /\ mapCenter' = g.location
    /\ moveendPending' = moveendPending + 1
    /\ lastEvent' = [type |-> "move", direction |-> direction]
    /\ inputs' = inputs + 1
    /\ UNCHANGED <<mementos, despawnLog, modified>>

\* the user drags the map by PanStride tiles
PanMap(dLat, dLng) ==
    /\ CanMoveMap
    /\ mapCenter' = [lat |-> mapCenter.lat + dLat * PanStride * TILE_DEGREES,
                     lng |-> mapCenter.lng + dLng * PanStride * TILE_DEGREES]
    /\ moveendPending' = moveendPending + 1
    /\ inputs' = inputs + 1
    /\ lastEvent' = [type |-> "drag"]
    /\ UNCHANGED <<activeCells, ghostCells, visibleCells, inventory, location,
                   points, isVictoryAchieved, mementos, despawnLog, modified>>

\* the "moveend" handler
HandleMapMove ==
    /\ moveendPending > 0
    /\ \E g \in {handleMapMove(Game, mapCenter)} : SetGame(g)
    /\ despawnLog' =
        [k \in DOMAIN despawnLog \cup (DOMAIN activeCells \ DOMAIN activeCells') |->
            IF k \in DOMAIN activeCells \ DOMAIN activeCells'
            THEN activeCells[k].token
            ELSE despawnLog[k]]
    /\ moveendPending' = moveendPending - 1
    /\ lastEvent' = NoInput
    /\ UNCHANGED <<mementos, mapCenter, inputs, modified>>

Next ==
    \/ /\ CanClick
       /\ \E key \in DOMAIN activeCells : ClickActive(key)
    \/ /\ CanClick
       /\ \E cell \in BagToSet(ghostCells) : ClickGhost(cell)
    \/ \E key \in DOMAIN activeCells : FeedbackTimerActive(key)
    \/ \E cell \in BagToSet(ghostCells) : FeedbackTimerGhost(cell)
    \/ \E direction \in Directions : MovePlayer(direction)
    \/ \E d \in {<<1, 0>>, <<-1, 0>>, <<0, 1>>, <<0, -1>>} : PanMap(d[1], d[2])
    \/ HandleMapMove

Spec == Init /\ [][Next]_vars

----------------------------------------------------------------------------
\* The game late in a session.  The player, back in the classroom with the
\* cells around it as spawned, holds a token of value held and has dropped
\* two more of that value in the cells "1,-1" and "0,0"; won tells whether a
\* token of 2048 was merged before.  The model handles MaxInputs inputs from
\* there.

\* the points earned by merging a token of value v up from ones
RECURSIVE Score(_)
Score(v) == IF v <= 1 THEN 0 ELSE v + 2 * Score(v \div 2)

LateScenarios ==
    {<<512, FALSE>>, <<1024, FALSE>>, <<1024, TRUE>>, <<2048, TRUE>>,
     <<1, TRUE>>}

LateGame(held, won) ==
    LET g0 == initializeGame
        g1 == [g0 EXCEPT
                 !.activeCells["1,-1"].token.value = held,
                 !.activeCells["0,0"].token.value = held,
                 !.points = 3 * Score(held)
                            + (IF won /\ held < VICTORY_THRESHOLD
                               THEN Score(VICTORY_THRESHOLD) ELSE 0),
                 !.isVictoryAchieved = won]
    IN  Only({updateInteractionRangeDisplay(g3) :
                 g3 \in {[g1 EXCEPT !.inventory = NewToken(g1, held)]}})

InitLate ==
    /\ \E s \in LateScenarios :
          \E g \in {LateGame(s[1], s[2])} :
             /\ activeCells = g.activeCells
             /\ ghostCells = g.ghostCells
             /\ visibleCells = g.visibleCells
             /\ inventory = g.inventory
             /\ location = g.location
             /\ points = g.points
             /\ isVictoryAchieved = g.isVictoryAchieved
    /\ mementos = <<>>
    /\ mapCenter = CLASSROOM_LOCATION
    /\ moveendPending = 0
    /\ lastEvent = NoInput
    /\ inputs = 0
    /\ despawnLog = <<>>
    /\ modified = {"1,-1", "0,0"}

SpecLate == InitLate /\ [][Next]_vars

----------------------------------------------------------------------------
\* The caretaker on its own: a caller makes up to MaxCalls calls of
\* saveState, restoreState, hasState, clearState and getAllStates on the
\* keys of CaretakerKeys, and may change a token object it holds.  lastEvent
\* is the record of the last call: its key, the token object the caller
\* passed or got back (as it is now), the result of hasState, the store
\* before the
\* call, and whether the call saves, under the same key, the token object
\* that the call before it restored.  Date.now() is the number of calls made
\* so far.

CaretakerKeys == {"0,0", "1,-1"}
TokenValues == {1, 2}

CallRecord(type, key, token, result) ==
    [type |-> type, origin |-> type, key |-> key, token |-> token,
     result |-> result, before |-> mementos,
     resaved |-> /\ type = "saveState"
                 /\ lastEvent.type = "restoreState"
                 /\ lastEvent.key = key
                 /\ lastEvent.token = token]

\* the ids of the token objects the store and the caller refer to
CaretakerIds(store, held) ==
    {store[k].token.id : k \in {x \in DOMAIN store : store[x].token # NULL}}
    \cup (IF held # NULL THEN {held.id} ELSE {})

InitCaretaker ==
    /\ activeCells = initializeGame.activeCells
    /\ ghostCells = initializeGame.ghostCells
    /\ visibleCells = initializeGame.visibleCells
    /\ inventory = initializeGame.inventory
    /\ location = initializeGame.location
    /\ points = initializeGame.points
    /\ isVictoryAchieved = initializeGame.isVictoryAchieved
    /\ mementos = <<>>
    /\ mapCenter = CLASSROOM_LOCATION
    /\ moveendPending = 0
    /\ lastEvent = [type |-> "none", origin |-> "none", key |-> "",
                    token |-> NULL, result |-> NULL, before |-> <<>>,
                    resaved |-> FALSE]
    /\ inputs = 0
    /\ despawnLog = <<>>
    /\ modified = {}

gameVars == <<activeCells, ghostCells, visibleCells, inventory, location,
              points, isVictoryAchieved, mapCenter, moveendPending,
              despawnLog, modified>>

\* saveState(cellKey, token) with a token object the caller holds: nothing,
\* a new object, or the object of the last call
SaveState(cellKey, token) ==
    /\ inputs < MaxCalls
    /\ mementos' = saveState(mementos, cellKey, token, inputs,
                             NthFree(CaretakerIds(mementos, token), 0))
    /\ lastEvent' = CallRecord("saveState", cellKey, token, NULL)
    /\ inputs' = inputs + 1
    /\ UNCHANGED gameVars

RestoreState(cellKey) ==
    /\ inputs < MaxCalls
    /\ lastEvent' = CallRecord("restoreState", cellKey,
                         restoreState(mementos, cellKey,
                                      NthFree(CaretakerIds(mementos, NULL), 0)),
                         NULL)
    /\ inputs' = inputs + 1
    /\ UNCHANGED <<mementos, gameVars>>

HasState(cellKey) ==
    /\ inputs < MaxCalls
    /\ lastEvent' = CallRecord("hasState", cellKey, NULL,
                               hasState(mementos, cellKey))
    /\ inputs' = inputs + 1
    /\ UNCHANGED <<mementos, gameVars>>

ClearState(cellKey) ==
    /\ inputs < MaxCalls
    /\ mementos' = clearState(mementos, cellKey)
    /\ lastEvent' = CallRecord("clearState", cellKey, NULL, NULL)
    /\ inputs' = inputs + 1
    /\ UNCHANGED gameVars

\* getAllStates().get(cellKey): the caller takes hold of the token object
\* of the memento stored under cellKey, which is the stored object itself
GetAllStates(cellKey) ==
    /\ inputs < MaxCalls
    /\ \E all \in {getAllStates(mementos)} :
          lastEvent' = CallRecord("getAllStates", cellKey,
                           IF cellKey \in DOMAIN all THEN all[cellKey].token
                           ELSE NULL,
                           NULL)
    /\ inputs' = inputs + 1
    /\ UNCHANGED <<mementos, gameVars>>

\* the caller assigns the field value of the token object it holds; every
\* reference to that object sees the new value
MutateToken(v) ==
    /\ lastEvent.token # NULL
    /\ lastEvent.type # "mutate"
    /\ lastEvent.token.value # v
    /\ lastEvent' = [lastEvent EXCEPT !.type = "mutate", !.token.value = v,
                                      !.before = mementos]
    /\ mementos' =
         [k \in DOMAIN mementos |->
            IF /\ mementos[k].token # NULL
               /\ mementos[k].token.id = lastEvent.token.id
            THEN [mementos[k] EXCEPT !.token.value = v]
            ELSE mementos[k]]
    /\ UNCHANGED <<inputs, gameVars>>

\* the token objects the caller can pass to saveState
CallerTokens ==
    {NULL, lastEvent.token}
    \cup {[value |-> v, id |-> NthFree(CaretakerIds(mementos, lastEvent.token), 0)] :
            v \in TokenValues}

NextCaretaker ==
    \/ \E cellKey \in CaretakerKeys, token \in CallerTokens :
          SaveState(cellKey, token)
    \/ \E cellKey \in CaretakerKeys : RestoreState(cellKey)
    \/ \E cellKey \in CaretakerKeys : HasState(cellKey)
    \/ \E cellKey \in CaretakerKeys : ClearState(cellKey)
    \/ \E cellKey \in CaretakerKeys : GetAllStates(cellKey)
    \/ \E v \in TokenValues : MutateToken(v)

SpecCaretaker == InitCaretaker /\ [][NextCaretaker]_vars

----------------------------------------------------------------------------
\* The page with up to MaxFlashes feedback callbacks pending at a time, so
\* that a cell can be clicked again before its callback has run.  The
\* browser runs every callback that is due: the callbacks are weakly fair.

CanClickAgain ==
    /\ inputs < MaxInputs
    /\ PendingTimers < MaxFlashes
    /\ GhostsLeft \/ moveendPending = 0

FeedbackTimer ==
    \/ \E key \in DOMAIN activeCells : FeedbackTimerActive(key)
    \/ \E cell \in BagToSet(ghostCells) : FeedbackTimerGhost(cell)

NextFlash ==
    \/ /\ CanClickAgain
       /\ \E key \in DOMAIN activeCells : ClickActive(key)
    \/ /\ CanClickAgain
       /\ \E cell \in BagToSet(ghostCells) : ClickGhost(cell)
    \/ FeedbackTimer
    \/ \E direction \in Directions : MovePlayer(direction)
    \/ \E d \in {<<1, 0>>, <<-1, 0>>, <<0, 1>>, <<0, -1>>} : PanMap(d[1], d[2])
    \/ HandleMapMove

SpecFlash == Init /\ [][NextFlash]_vars /\ WF_vars(FeedbackTimer)

----------------------------------------------------------------------------
\* The functions of the game called one at a time on the state of the game,
\* with any active cell for argument, between movements of the player.
\* lastEvent is the record of the last call: the function, its arguments, the
\* cell object before the call where there is one, what it returned, and
\* whether the call before it was the same call.

CanCall == inputs < MaxInputs

Called(fn, args, before, ret) ==
    /\ lastEvent' = [type |-> fn, args |-> args, before |-> before,
                     ret |-> ret, inventory |-> inventory, points |-> points,
                     again |-> lastEvent.type = fn /\ lastEvent.args = args]
    /\ inputs' = inputs + 1

PickupTokenFromCell(key) ==
    /\ CanCall
    /\ SetGame(pickupTokenFromCell(Game, ActiveRef(key)))
    /\ Called("pickupTokenFromCell", key, activeCells[key], NULL)
    /\ UNCHANGED <<mementos, mapCenter, moveendPending, despawnLog, modified>>

DropTokenToCell(key) ==
    /\ CanCall
    /\ \E r \in {dropTokenToCell(Game, ActiveRef(key))} :
          /\ SetGame(r.game)
          /\ Called("dropTokenToCell", key, activeCells[key], r.ret)
    /\ UNCHANGED <<mementos, mapCenter, moveendPending, despawnLog, modified>>

\* the cell coordinates spawnTokenInCell is called with: cells with a spawn
\* roll below, at and above SPAWN_PROBABILITY, at SPAWN_RADIUS from the
\* player's cell and beyond it
ProbeCells == {<<0, 0>>, <<2, -3>>, <<-2, 1>>, <<9, -1>>, <<3, 3>>, <<-9, -1>>}

\* spawnTokenInCell(i, j), with what shouldSpawnToken and determineTokenValue
\* return for the same arguments
SpawnTokenInCell(i, j) ==
    /\ CanCall
    /\ Called("spawnTokenInCell", <<i, j>>, NULL,
              [token |-> spawnTokenInCell(Game, i, j),
               should |-> shouldSpawnToken(Game, i, j),
               value |-> determineTokenValue(i, j)])
    /\ UNCHANGED <<activeCells, ghostCells, visibleCells, inventory, location,
                   points, isVictoryAchieved, mementos, mapCenter,
                   moveendPending, despawnLog, modified>>

\* the cell coordinates isCellInteractable is called with: the player's
\* first cell 0,-1, and cells 3 and 4 rows or columns from it, straight and
\* diagonal
RangeProbeCells ==
    {<<0, -1>>, <<3, 2>>, <<4, -1>>, <<0, 3>>, <<-3, -4>>, <<3, -5>>}

\* isCellInteractable(cell) for a cell object with the coordinates (i, j)
IsCellInteractable(i, j) ==
    /\ CanCall
    /\ \E cell \in {[i |-> i, j |-> j, token |-> NULL, element |-> NULL,
                      timers |-> 0]} :
          Called("isCellInteractable", <<i, j>>, cell,
                 isCellInteractable(Game, cell))
    /\ UNCHANGED <<activeCells, ghostCells, visibleCells, inventory, location,
                   points, isVictoryAchieved, mementos, mapCenter,
                   moveendPending, despawnLog, modified>>

NextDirect ==
    \/ \E key \in DOMAIN activeCells : PickupTokenFromCell(key)
    \/ \E key \in DOMAIN activeCells : DropTokenToCell(key)
    \/ \E c \in ProbeCells : SpawnTokenInCell(c[1], c[2])
    \/ \E c \in RangeProbeCells : IsCellInteractable(c[1], c[2])
    \/ \E direction \in Directions : MovePlayer(direction)
    \/ HandleMapMove

SpecDirect == Init /\ [][NextDirect]_vars

----------------------------------------------------------------------------
\* The functions that read nothing of the game, applied to arguments drawn
\* at the start: determineTokenValue to the cells of ProbeCells, its loop to
\* every roll, worldToCell and cellToWorldBounds to the world points of
\* WorldPoints.  A roll is in hundredths; the roll 100 stands for a roll not
\* below the mass the loop accumulates (0.6 + 0.3 + 0.1 is less than 1 in
\* the arithmetic of the code).  A coordinate is in half tiles.

MaxRoll == 100
MaxCoordinate == 6

Rolls == 0..MaxRoll
WorldPoints == (-MaxCoordinate..MaxCoordinate) \X (-MaxCoordinate..MaxCoordinate)

Argument(fn, args) == [type |-> "input", fn |-> fn, args |-> args]

InitPure ==
    /\ activeCells = initializeGame.activeCells
    /\ ghostCells = initializeGame.ghostCells
    /\ visibleCells = initializeGame.visibleCells
    /\ inventory = initializeGame.inventory
    /\ location = initializeGame.location
    /\ points = initializeGame.points
    /\ isVictoryAchieved = initializeGame.isVictoryAchieved
    /\ mementos = <<>>
    /\ mapCenter = CLASSROOM_LOCATION
    /\ moveendPending = 0
    /\ lastEvent \in {Argument("determineTokenValue", c) : c \in ProbeCells}
                     \cup {Argument("walkDistribution", r) : r \in Rolls}
                     \cup {Argument("worldToCell", p) : p \in WorldPoints}
    /\ inputs = 0
    /\ despawnLog = <<>>
    /\ modified = {}

Applies(fn) == lastEvent.type = "input" /\ lastEvent.fn = fn

DetermineTokenValue ==
    /\ Applies("determineTokenValue")
    /\ \E c \in {lastEvent.args} :
          Called("determineTokenValue", c, NULL, determineTokenValue(c[1], c[2]))
    /\ UNCHANGED <<mementos, gameVars>>

\* the loop of determineTokenValue for the roll that luck has returned
WalkDistribution ==
    /\ Applies("walkDistribution")
    /\ \E valueRoll \in {lastEvent.args} :
          Called("walkDistribution", valueRoll, NULL,
                 walkDistribution(valueRoll, 1, 0))
    /\ UNCHANGED <<mementos, gameVars>>

\* worldToCell(lat, lng), and the bounds of the cell it returns
WorldToCell ==
    /\ Applies("worldToCell")
    /\ \E p \in {lastEvent.args} :
       \E cell \in {worldToCell(p[1], p[2])} :
          Called("worldToCell", p, NULL,
                 [cell |-> cell, bounds |-> cellToWorldBounds(cell.i, cell.j)])
    /\ UNCHANGED <<mementos, gameVars>>

NextPure == DetermineTokenValue \/ WalkDistribution \/ WorldToCell

SpecPure == InitPure /\ [][NextPure]_vars

----------------------------------------------------------------------------
\* The page from the moment the module is loaded.  The variable map of the
\* code is undefined until initializeGame has assigned it the result of
\* initializeMap: until then the map has no view, and mapCenter is NULL.
\* createCellElement, updateCellVisualization and spawnCell are called on
\* their own before initializeGame runs and after it has returned, with the
\* cell objects of BootCells and the coordinates of ProbeCells for arguments.
\* A GridCell object has the field bounds here.  A call either throws,
\* Thrown(message), or returns, Returned(value); lastEvent is the record of
\* the last call, or of the last statement of initializeGame that has run.

Thrown(message) == [error |-> message]
Returned(value) == [error |-> "", value |-> value]

\* seeded fault: the rectangle is created without a look at map
createCellElementOn_anyMap(map, g, cell) ==
    IF cell.bounds = NULL THEN Thrown("Cell bounds undefined")
    ELSE Returned(createCellElement(g, cell))

\* createCellElement(cell) while the variable map has the value map
createCellElementOn(map, g, cell) ==
    IF map = NULL THEN Thrown("Map not initialized")
    ELSE IF cell.bounds = NULL THEN Thrown("Cell bounds undefined")
    ELSE Returned(createCellElement(g, cell))

\* updateCellVisualization(cell) while the variable map has the value map:
\* the error thrown if any, and the cell object as the call leaves it
updateCellVisualizationOn(map, g, cell) ==
    IF map = NULL THEN [error |-> "Map not initialized", cell |-> cell]
    ELSE LET removed == IF cell.element # NULL
                        THEN [cell EXCEPT !.element.onMap = FALSE]
                        ELSE cell
             r == createCellElementOn(map, g, removed)
         IN  IF r.error # "" THEN [error |-> r.error, cell |-> removed]
             ELSE [error |-> "", cell |-> [cell EXCEPT !.element = r.value]]

\* spawnCell(i, j) while the variable map has the value map: the error
\* thrown if any, and the game as the call leaves it
spawnCellOn(map, g, i, j) ==
    LET bounds == cellToWorldBounds(i, j)
        token == spawnTokenInCell(g, i, j)
        newCell == [i |-> i, j |-> j, token |-> token, bounds |-> bounds,
                    element |-> NULL, timers |-> 0]
        r == createCellElementOn(map, g, newCell)
    IN  IF r.error # "" THEN [error |-> r.error, game |-> g]
        ELSE [error |-> "", game |-> spawnCell(g, i, j)]

\* the statements of initializeGame that leave the module between two states
BootSteps == {"initializeMap", "cleanupAllCells"}

\* cell objects a caller makes up: with bounds and without
BootCells ==
    {[i |-> c[1], j |-> c[2], token |-> NULL, bounds |-> b, element |-> NULL,
      timers |-> 0] :
        c \in {<<0, 0>>, <<9, -1>>},
        b \in {NULL, cellToWorldBounds(0, 0)}}

InitBoot ==
    /\ activeCells = InitialGame.activeCells
    /\ ghostCells = InitialGame.ghostCells
    /\ visibleCells = InitialGame.visibleCells
    /\ inventory = InitialGame.inventory
    /\ location = InitialGame.location
    /\ points = InitialGame.points
    /\ isVictoryAchieved = InitialGame.isVictoryAchieved
    /\ mementos = <<>>
    /\ mapCenter = NULL
    /\ moveendPending = 0
    /\ lastEvent = NoInput
    /\ inputs = 0
    /\ despawnLog = <<>>
    /\ modified = {}

\* a call from outside initializeGame
CanCallOutside == inputs < MaxInputs /\ lastEvent.type \notin BootSteps

CreateCellElement(cell) ==
    /\ CanCallOutside
    /\ Called("createCellElement", cell, NULL,
              createCellElementOn(mapCenter, Game, cell))
    /\ UNCHANGED <<activeCells, ghostCells, visibleCells, inventory, location,
                   points, isVictoryAchieved, mementos, mapCenter,
                   moveendPending, despawnLog, modified>>

UpdateCellVisualization(cell) ==
    /\ CanCallOutside
    /\ Called("updateCellVisualization", cell, NULL,
              updateCellVisualizationOn(mapCenter, Game, cell))
    /\ UNCHANGED <<activeCells, ghostCells, visibleCells, inventory, location,
                   points, isVictoryAchieved, mementos, mapCenter,
                   moveendPending, despawnLog, modified>>

SpawnCell(i, j) ==
    /\ CanCallOutside
    /\ \E r \in {spawnCellOn(mapCenter, Game, i, j)} :
          /\ SetGame(r.game)
          /\ Called("spawnCell", <<i, j>>, NULL, [error |-> r.error])
    /\ UNCHANGED <<mementos, mapCenter, moveendPending, despawnLog, modified>>

\* initializeGame up to map = initializeMap()
InitializeMap ==
    /\ mapCenter = NULL
    /\ mapCenter' = CLASSROOM_LOCATION
    /\ lastEvent' = [type |-> "initializeMap"]
    /\ UNCHANGED <<activeCells, ghostCells, visibleCells, inventory, location,
                   points, isVictoryAchieved, mementos, moveendPending, inputs,
                   despawnLog, modified>>

\* setupMovementControls and cleanupAllCells
CleanupAllCells ==
    /\ lastEvent.type = "initializeMap"
    /\ SetGame(cleanupAllCells(Game))
    /\ lastEvent' = [type |-> "cleanupAllCells"]
    /\ UNCHANGED <<mementos, mapCenter, moveendPending, inputs, despawnLog,
                   modified>>

\* updateCellVisibility and the rest of initializeGame, which binds
\* "moveend" and returns
UpdateCellVisibility ==
    /\ lastEvent.type = "cleanupAllCells"
    /\ SetGame(updateCellVisibility(Game, mapCenter))
    /\ lastEvent' = NoInput
    /\ UNCHANGED <<mementos, mapCenter, moveendPending, inputs, despawnLog,
                   modified>>

NextBoot ==
    \/ \E cell \in BootCells : CreateCellElement(cell)
    \/ \E cell \in BootCells : UpdateCellVisualization(cell)
    \/ \E c \in ProbeCells : SpawnCell(c[1], c[2])
    \/ InitializeMap
    \/ CleanupAllCells
    \/ UpdateCellVisibility

SpecBoot == InitBoot /\ [][NextBoot]_vars

----------------------------------------------------------------------------
\* Vocabulary of the properties.  e is the record of a click (lastEvent after
\* the step), read together with the state before it.

ClickStep == lastEvent'.type = "click" /\ inputs' = inputs + 1

\* Chebyshev distance between the player's cell and the clicked cell
ClickDistance(e) ==
    LET pi == location.lat \div TILE_DEGREES
        pj == location.lng \div TILE_DEGREES
        di == IF e.before.i >= pi THEN e.before.i - pi ELSE pi - e.before.i
        dj == IF e.before.j >= pj THEN e.before.j - pj ELSE pj - e.before.j
    IN  IF di >= dj THEN di ELSE dj

ClickInRange(e) == ClickDistance(e) <= 3

\* the clicked object is the one the click record names, before and after
ClickedIsTarget(e) ==
    IF e.ghost
    THEN /\ BagIn(e.before, ghostCells)
         /\ ghostCells' = (ghostCells (-) SetToBag({e.before}))
                          (+) SetToBag({e.after})
    ELSE /\ e.key \in DOMAIN activeCells
         /\ activeCells[e.key] = e.before
         /\ activeCells'[e.key] = e.after
         /\ ghostCells' = ghostCells

\* no cell other than the clicked one gets another token, and no cell is
\* created or removed
OtherCellsKeepToken(e) ==
    /\ ClickedIsTarget(e)
    /\ DOMAIN activeCells' = DOMAIN activeCells
    /\ visibleCells' = visibleCells
    /\ \A k \in DOMAIN activeCells :
          (e.ghost \/ k # e.key) =>
              activeCells'[k].token = activeCells[k].token

\* a click that changes nothing of the game
NothingChanges(e) ==
    /\ OtherCellsKeepToken(e)
    /\ e.after.token = e.before.token
    /\ inventory' = inventory
    /\ points' = points
    /\ isVictoryAchieved' = isVictoryAchieved

\* what a token reference shows: the value of the token, or nothing
ValueOf(t) == IF t = NULL THEN NULL ELSE Token(t.value)

\* the keys a "moveend" pass has just made active
Respawned == DOMAIN activeCells' \ DOMAIN activeCells

\* the keys a "moveend" pass has just despawned
Despawned == DOMAIN activeCells \ DOMAIN activeCells'

----------------------------------------------------------------------------
\* C1: a cell that a pickup, drop or merge changed comes back from a
\* despawn/respawn cycle with the token it held when it was despawned.
C1_ModifiedCellKeepsState ==
    [][\A k \in Respawned :
          (k \in DOMAIN despawnLog /\ k \in modified) =>
              ValueOf(activeCells'[k].token) = ValueOf(despawnLog[k])]_vars

\* C2: a despawned cell's token is saved to the caretaker: after the pass
\* hasState(key) holds, restoreState(key) is the token the cell held, its
\* rectangle is off the map and its key is no longer active.
C2_DespawnSavesState ==
    [][\A k \in Despawned :
          /\ hasState(mementos', k)
          /\ ValueOf(restoreState(mementos', k, 0)) = ValueOf(activeCells[k].token)
          /\ k \notin visibleCells']_vars

\* C3: a cell that no pickup, drop or merge ever changed is respawned with
\* the token it had when it was despawned, which is its original spawn.
C3_UnmodifiedRespawnEquivalence ==
    [][\A k \in Respawned :
          (k \in DOMAIN despawnLog /\ k \notin modified) =>
              ValueOf(activeCells'[k].token) = ValueOf(despawnLog[k])]_vars

\* C4: spawnTokenInCell(i, j) returns the same result at every call: called
\* in the current state, it returns what the call that created the cell
\* returned (the token of an active cell that no click changed).
C4_SpawnDeterminism ==
    \A k \in DOMAIN activeCells :
        k \notin modified =>
            ValueOf(spawnTokenInCell(Game, activeCells[k].i, activeCells[k].j))
                = ValueOf(activeCells[k].token)

\* C5: a click on an in-range cell holding a token of the value V of the held
\* token leaves a token of value 2V in the cell, empties the inventory, adds
\* 2V to the points, and leaves the token of every other cell alone.
C5_MergeSuccess ==
    [][LET e == lastEvent'
       IN  (/\ ClickStep
            /\ ClickInRange(e)
            /\ e.before.token # NULL
            /\ inventory # NULL
            /\ inventory.value = e.before.token.value)
           => /\ ValueOf(e.after.token) = Token(2 * inventory.value)
              /\ inventory' = NULL
              /\ points' = points + 2 * inventory.value
              /\ e.action = "merge"
              /\ OtherCellsKeepToken(e)]_vars

W_C5_MergeSuccess ==
    /\ lastEvent.type = "click"
    /\ lastEvent.action = "merge"
    /\ ValueOf(lastEvent.before.token) = Token(1)
    /\ ValueOf(lastEvent.after.token) = Token(2)
    /\ points = 2

\* C6: a click on an in-range cell holding a token of another value than the
\* held one is reported "invalid" and changes neither the cell token, nor the
\* inventory, nor the points, nor the victory flag.
C6_MergeFailure ==
    [][LET e == lastEvent'
       IN  (/\ ClickStep
            /\ ClickInRange(e)
            /\ e.before.token # NULL
            /\ inventory # NULL
            /\ inventory.value # e.before.token.value)
           => /\ e.action = "invalid"
              /\ NothingChanges(e)]_vars

W_C6_MergeFailure ==
    /\ lastEvent.type = "click"
    /\ lastEvent.action = "invalid"
    /\ lastEvent.before.token # NULL
    /\ inventory # NULL
    /\ inventory.value # lastEvent.before.token.value
    /\ lastEvent.after.token = lastEvent.before.token

\* C7: a click picks a token up iff the cell is in range, holds a token and
\* the inventory is empty; the token moves from the cell to the inventory,
\* and points, victory flag and the other cells stay as they are.
C7_Pickup ==
    [][LET e == lastEvent'
       IN  ClickStep =>
           /\ e.action = "pickup"
                <=> (ClickInRange(e) /\ e.before.token # NULL /\ inventory = NULL)
           /\ e.action = "pickup" =>
                /\ e.after.token = NULL
                /\ inventory' = e.before.token
                /\ points' = points
                /\ isVictoryAchieved' = isVictoryAchieved
                /\ OtherCellsKeepToken(e)]_vars

W_C7_Pickup ==
    /\ lastEvent.type = "click"
    /\ lastEvent.action = "pickup"
    /\ lastEvent.before.token # NULL
    /\ lastEvent.after.token = NULL
    /\ inventory = lastEvent.before.token

\* C8: a click on an empty in-range cell while a token of value V is held
\* puts that token in the cell and empties the inventory; points, victory
\* flag and the other cells stay as they are.
C8_Drop ==
    [][LET e == lastEvent'
       IN  (/\ ClickStep
            /\ ClickInRange(e)
            /\ e.before.token = NULL
            /\ inventory # NULL)
           => /\ e.after.token = inventory
              /\ inventory' = NULL
              /\ e.action = "drop"
              /\ points' = points
              /\ isVictoryAchieved' = isVictoryAchieved
              /\ OtherCellsKeepToken(e)]_vars

W_C8_Drop ==
    /\ lastEvent.type = "click"
    /\ lastEvent.action = "drop"
    /\ lastEvent.before.token = NULL
    /\ lastEvent.after.token # NULL
    /\ inventory = NULL

\* C9: a click on a cell farther than 3 cells (Chebyshev) from the player's
\* cell is reported "outOfRange" and changes no token, nor the inventory, the
\* points or the victory flag.
C9_RangeEnforcement ==
    [][LET e == lastEvent'
       IN  (ClickStep /\ ~ClickInRange(e))
           => /\ e.action = "outOfRange"
              /\ NothingChanges(e)]_vars

\* the rejected click is on a cell just outside the range
W_C9_RangeEnforcement ==
    /\ lastEvent.type = "click"
    /\ lastEvent.action = "outOfRange"
    /\ Max(Abs(lastEvent.before.i - location.lat \div TILE_DEGREES),
           Abs(lastEvent.before.j - location.lng \div TILE_DEGREES)) = 4

\* C10: the decision table of a click on an in-range cell: token and empty
\* inventory, pickup; token and held token, merge when the values are equal
\* and "invalid" without change otherwise; no token and held token, drop; no
\* token and empty inventory, "invalid" without change.
C10_ClickDispatch ==
    [][LET e == lastEvent'
           cellFull == e.before.token # NULL
           holding == inventory # NULL
       IN  (ClickStep /\ ClickInRange(e)) =>
           /\ OtherCellsKeepToken(e)
           /\ (cellFull /\ ~holding) =>
                /\ e.action = "pickup"
                /\ e.after.token = NULL /\ inventory' = e.before.token
                /\ points' = points
           /\ (cellFull /\ holding /\ inventory.value = e.before.token.value) =>
                /\ e.action = "merge"
                /\ ValueOf(e.after.token) = Token(2 * inventory.value)
                /\ inventory' = NULL
                /\ points' = points + 2 * inventory.value
           /\ (cellFull /\ holding /\ inventory.value # e.before.token.value) =>
                /\ e.action = "invalid"
                /\ NothingChanges(e)
           /\ (~cellFull /\ holding) =>
                /\ e.action = "drop"
                /\ e.after.token = inventory /\ inventory' = NULL
                /\ points' = points
           /\ (~cellFull /\ ~holding) =>
                /\ e.action = "invalid"
                /\ NothingChanges(e)]_vars

\* the last row of the table: nothing to pick up and nothing to drop
W_C10_ClickDispatch ==
    /\ lastEvent.type = "click"
    /\ lastEvent.action = "invalid"
    /\ lastEvent.before.token = NULL
    /\ lastEvent.after.token = NULL
    /\ inventory = NULL
    /\ Max(Abs(lastEvent.before.i - location.lat \div TILE_DEGREES),
           Abs(lastEvent.before.j - location.lng \div TILE_DEGREES)) <= 3

----------------------------------------------------------------------------
\* a click that merged: the held token is gone and the cell holds the double
MergeStep(e) ==
    /\ ClickStep
    /\ inventory # NULL /\ inventory' = NULL
    /\ e.before.token # NULL /\ e.after.token # NULL
    /\ e.after.token.value = 2 * e.before.token.value

\* C11: after a merge that leaves a token of value 2048 or more the victory
\* flag is set, and the flag is set by no step other than such a merge.
C11_VictoryDetection ==
    [][LET e == lastEvent'
       IN  /\ (MergeStep(e) /\ e.after.token.value >= 2048)
                => isVictoryAchieved'
           /\ (isVictoryAchieved' /\ ~isVictoryAchieved)
                => (MergeStep(e) /\ e.after.token.value >= 2048)]_vars

\* two tokens of 1024 were merged and the game is won
W_C11_VictoryDetection ==
    /\ lastEvent.type = "click"
    /\ lastEvent.action = "merge"
    /\ lastEvent.before.token.value = 1024
    /\ lastEvent.after.token.value = 2048
    /\ isVictoryAchieved

\* C12: once the victory flag is set, every step leaves it set.
C12_VictoryMonotonic ==
    [][isVictoryAchieved => isVictoryAchieved']_vars

\* the game was won and a later merge made a token below the threshold
W_C12_VictoryMonotonic ==
    /\ isVictoryAchieved
    /\ lastEvent.type = "click"
    /\ lastEvent.action = "merge"
    /\ lastEvent.after.token.value < 2048

----------------------------------------------------------------------------
IsPowerOfTwo(n) == n >= 1 /\ \E k \in 0..30 : n = 2 ^ k

\* C13: every token an active cell or the inventory holds has a value that
\* is a power of two, 1 or more.
C13_TokensArePowersOfTwo ==
    /\ \A k \in DOMAIN activeCells :
          activeCells[k].token # NULL => IsPowerOfTwo(activeCells[k].token.value)
    /\ inventory # NULL => IsPowerOfTwo(inventory.value)

\* the player holds a token that a merge made, next to the spawned tokens
W_C13_TokensArePowersOfTwo ==
    /\ inventory # NULL /\ inventory.value = 2
    /\ points = 2
    /\ \E k \in DOMAIN activeCells :
          activeCells[k].token # NULL /\ activeCells[k].token.value = 4

----------------------------------------------------------------------------
\* the ids of the token objects that cells and the inventory refer to
HeldIds ==
    {activeCells[k].token.id :
        k \in {x \in DOMAIN activeCells : activeCells[x].token # NULL}}
    \cup {c.token.id : c \in {x \in BagToSet(ghostCells) : x.token # NULL}}
    \cup (IF inventory # NULL THEN {inventory.id} ELSE {})

\* the number of references to the token object id: one for each active
\* cell, each despawned cell object still on the page, and the inventory
RefCount(id) ==
    Cardinality({k \in DOMAIN activeCells :
                    activeCells[k].token # NULL /\ activeCells[k].token.id = id})
    + Cardinality(UNION {{<<c, n>> : n \in 1..CopiesIn(c, ghostCells)} :
                            c \in {x \in BagToSet(ghostCells) :
                                      x.token # NULL /\ x.token.id = id}})
    + (IF inventory # NULL /\ inventory.id = id THEN 1 ELSE 0)

\* C14: no token object is referred to by the inventory and a cell, or by
\* two cells.
C14_ExclusiveTokenOwnership ==
    \A id \in HeldIds : RefCount(id) = 1

\* a token was picked up and dropped into another cell: the four spawned
\* tokens are in four cells, one of them not where it was spawned
W_C14_ExclusiveTokenOwnership ==
    /\ lastEvent.type = "click" /\ lastEvent.action = "drop"
    /\ inventory = NULL /\ points = 0
    /\ lastEvent.key \in DOMAIN activeCells
    /\ activeCells[lastEvent.key].token = lastEvent.after.token
    /\ lastEvent.key \notin {"1,-1", "0,0", "-1,-2", "-2,1"}
    /\ Cardinality(HeldIds) = 4

----------------------------------------------------------------------------
\* the keys of the cells from two cells south-west of the cell of the
\* south-west corner of the view to two cells north-east of the cell of its
\* north-east corner
ViewRectangleKeys ==
    LET southWest == worldToCell(mapCenter.lat - HalfViewLat * TILE_DEGREES,
                                 mapCenter.lng - HalfViewLng * TILE_DEGREES)
        northEast == worldToCell(mapCenter.lat + HalfViewLat * TILE_DEGREES,
                                 mapCenter.lng + HalfViewLng * TILE_DEGREES)
    IN  {ToString(i) \o "," \o ToString(j) :
            i \in (southWest.i - 2)..(northEast.i + 2),
            j \in (southWest.j - 2)..(northEast.j + 2)}

\* a step that is an updateCellVisibility pass
VisibilityPass == moveendPending' = moveendPending - 1

\* C15: after every updateCellVisibility pass (the one of initializeGame
\* included) the active keys are the keys of the rectangle of the view
\* widened by VIEWPORT_BUFFER = 2 cells on every side, no more and no less.
C15_ActiveSetIsViewRectangle ==
    /\ DOMAIN activeCells = ViewRectangleKeys
    /\ [][VisibilityPass => DOMAIN activeCells' = ViewRectangleKeys']_vars

\* the map was dragged north and the pass has replaced the cells
W_C15_ActiveSetIsViewRectangle ==
    /\ moveendPending = 0
    /\ mapCenter.lat > CLASSROOM_LAT + TILE_DEGREES
    /\ "9,-1" \in DOMAIN activeCells
    /\ "0,-1" \notin DOMAIN activeCells
    /\ despawnLog # <<>>

----------------------------------------------------------------------------
\* Vocabulary of the caretaker properties

\* a step that is a call of the operation type of the caretaker
CallStep(type) == lastEvent'.type = type /\ inputs' = inputs + 1

\* what restoreState(cellKey) shows on a store
Restored(store, cellKey) == ValueOf(restoreState(store, cellKey, 0))

\* the snapshots of the keys other than cellKey are the same in both stores
OtherSnapshotsSame(cellKey) ==
    /\ DOMAIN mementos' \ {cellKey} = DOMAIN mementos \ {cellKey}
    /\ \A k \in DOMAIN mementos \ {cellKey} : mementos'[k] = mementos[k]

\* C16: after saveState(k, T), restoreState(k) returns a token equal to T
\* (nothing if T is nothing) and hasState(k) is true.
C16_MementoRoundTrip ==
    [][CallStep("saveState") =>
          /\ hasState(mementos', lastEvent'.key)
          /\ Restored(mementos', lastEvent'.key) = ValueOf(lastEvent'.token)]_vars

\* the state "saved as empty" and a saved token are both in the store
W_C16_MementoRoundTrip ==
    /\ lastEvent.type = "saveState"
    /\ lastEvent.token = NULL
    /\ hasState(mementos, lastEvent.key)
    /\ \E k \in DOMAIN mementos : Restored(mementos, k) = Token(2)

\* C17: saveState(k, T2) on a key that has a snapshot replaces it:
\* restoreState(k) returns T2, the store has one snapshot for k, and the
\* snapshots of the other keys are as they were.
C17_SaveSupersedes ==
    [][CallStep("saveState") =>
          /\ Restored(mementos', lastEvent'.key) = ValueOf(lastEvent'.token)
          /\ DOMAIN mementos' = DOMAIN mementos \cup {lastEvent'.key}
          /\ mementos'[lastEvent'.key].cellKey = lastEvent'.key
          /\ OtherSnapshotsSame(lastEvent'.key)]_vars

\* a second saveState on a key, with another token, another key being saved
W_C17_SaveSupersedes ==
    /\ lastEvent.type = "saveState"
    /\ lastEvent.key \in DOMAIN lastEvent.before
    /\ Restored(lastEvent.before, lastEvent.key) # ValueOf(lastEvent.token)
    /\ Restored(mementos, lastEvent.key) = ValueOf(lastEvent.token)
    /\ DOMAIN mementos = CaretakerKeys

\* C18: restoreState and hasState leave the store alone and return nothing
\* and false for a key without snapshot; restoreState returns nothing for a
\* key saved as empty too, for which hasState returns true; clearState(k)
\* removes the snapshot of k, leaves the other snapshots alone, and changes
\* nothing for a key without snapshot.
C18_MissingAndClear ==
    [][LET e == lastEvent'
       IN  /\ CallStep("restoreState") =>
                /\ mementos' = mementos
                /\ (e.key \notin DOMAIN mementos => e.token = NULL)
                /\ (e.key \in DOMAIN mementos /\ mementos[e.key].token = NULL)
                      => e.token = NULL
           /\ CallStep("hasState") =>
                /\ mementos' = mementos
                /\ e.result = (e.key \in DOMAIN mementos)
           /\ CallStep("clearState") =>
                /\ ~hasState(mementos', e.key)
                /\ restoreState(mementos', e.key, 0) = NULL
                /\ OtherSnapshotsSame(e.key)
                /\ (e.key \notin DOMAIN mementos => mementos' = mementos)]_vars

\* clearState has removed the snapshot of a key and left the other one
W_C18_MissingAndClear ==
    /\ lastEvent.type = "clearState"
    /\ lastEvent.key \in DOMAIN lastEvent.before
    /\ lastEvent.key \notin DOMAIN mementos
    /\ mementos # <<>>

\* C19: what restoreState(k) and hasState(k) return changes only by a
\* saveState or a clearState on k: not by a change of the token object that
\* was passed to saveState or returned by restoreState.
C19_SnapshotImmutability ==
    [][\A k \in CaretakerKeys :
          (\/ hasState(mementos', k) # hasState(mementos, k)
           \/ Restored(mementos', k) # Restored(mementos, k))
          => /\ lastEvent'.type \in {"saveState", "clearState"}
             /\ lastEvent'.key = k]_vars

\* the caller has changed the token object it had passed to saveState, and
\* the store still shows the value saved
W_C19_SnapshotImmutability ==
    /\ lastEvent.type = "mutate"
    /\ lastEvent.origin = "saveState"
    /\ lastEvent.key \in DOMAIN mementos
    /\ Restored(mementos, lastEvent.key) # ValueOf(lastEvent.token)

----------------------------------------------------------------------------
\* the rectangle of the active cell registered under key shows the style and
\* the tooltip that the player's position and inventory of this state give
ShowsCurrentVisual(key) ==
    activeCells[key].element = createCellElement(Game, activeCells[key])

\* C20: the visual of every active cell is recomputed after every movement
\* of the player and after every successful pickup, drop or merge, before
\* the next user event: a click is never handled while an active cell shows
\* a visual computed from the previous position or inventory.
C20_NoClickOnStaleVisual ==
    [][ClickStep => \A key \in DOMAIN activeCells : ShowsCurrentVisual(key)]_vars

----------------------------------------------------------------------------
\* a step in which a callback scheduled by provideVisualFeedback fires
TimerStep ==
    /\ PendingTimers' = PendingTimers - 1
    /\ moveendPending' = moveendPending
    /\ inputs' = inputs

\* the tokens of the despawned cell objects still on the page
GhostTokens == {c.token : c \in BagToSet(ghostCells)}

\* C21: a callback scheduled by provideVisualFeedback changes neither the
\* inventory, nor the points, nor the victory flag, nor the token of a cell,
\* nor the set of active cell keys, nor the caretaker's store.
C21_FeedbackIsCosmetic ==
    [][TimerStep =>
          /\ inventory' = inventory
          /\ points' = points
          /\ isVictoryAchieved' = isVictoryAchieved
          /\ DOMAIN activeCells' = DOMAIN activeCells
          /\ \A k \in DOMAIN activeCells :
                activeCells'[k].token = activeCells[k].token
          /\ visibleCells' = visibleCells
          /\ GhostTokens' = GhostTokens
          /\ BagCardinality(ghostCells') = BagCardinality(ghostCells)
          /\ mementos' = mementos]_vars

\* callbacks have fired after a pickup, one of them for a cell object
\* holding a token that was despawned before its callback ran
W_C21_FeedbackIsCosmetic ==
    /\ lastEvent = NoInput
    /\ inventory # NULL
    /\ PendingTimers = 0
    /\ \E c \in BagToSet(ghostCells) : c.token # NULL /\ c.element.onMap

----------------------------------------------------------------------------
\* the rectangle of the cell object shows one of the flash styles
HasFlash(cell) ==
    \E a \in DOMAIN FEEDBACK_STYLES :
        /\ cell.element.style.color = FEEDBACK_STYLES[a].color
        /\ cell.element.style.weight = FEEDBACK_STYLES[a].weight

\* a rectangle on the map shows a flash style
FlashShown ==
    \/ \E k \in DOMAIN activeCells : HasFlash(activeCells[k])
    \/ \E c \in BagToSet(ghostCells) : c.element.onMap /\ HasFlash(c)

\* the despawned cell objects whose rectangle is not the one that the state
\* gives
StaleGhosts ==
    {c \in BagToSet(ghostCells) : c.element # createCellElement(Game, c)}

\* C22: a flash style is replaced in the end by the style computed from the
\* state of that moment: every callback that runs, the last of several
\* pending for a cell included, leaves its cell with the visual computed
\* from the current state, and every pending callback runs.
C22_FlashRevert ==
    /\ [][TimerStep =>
            /\ \A k \in DOMAIN activeCells \cap DOMAIN activeCells' :
                  activeCells'[k].timers < activeCells[k].timers
                  => ShowsCurrentVisual(k)'
            /\ \A c \in BagToSet(ghostCells') :
                  CopiesIn(c, ghostCells') > CopiesIn(c, ghostCells)
                  => c \notin StaleGhosts']_vars
    /\ (FlashShown \/ PendingTimers > 0) ~> (~FlashShown /\ PendingTimers = 0)

\* a cell was clicked twice, for a pickup and a drop, before a callback ran,
\* and the first of its two callbacks has run
W_C22_FlashRevert ==
    /\ inputs = 2 /\ inventory = NULL /\ moveendPending = 0
    /\ lastEvent = NoInput
    /\ PendingTimers = 1
    /\ \E k \in DOMAIN activeCells :
          modified = {k} /\ activeCells[k].timers = 1

----------------------------------------------------------------------------
\* a step that is a call of the function fn
DirectCall(fn) == lastEvent'.type = fn /\ inputs' = inputs + 1

\* C23: dropTokenToCell(cell) returns true and changes the state only if the
\* cell is interactable, the inventory is not empty and the cell has no
\* token; otherwise, and so for a cell that holds a token, it returns false
\* and leaves the token of the cell, the inventory and the points as they
\* were.
C23_DropOnlyWhenLegal ==
    [][DirectCall("dropTokenToCell") =>
          LET key == lastEvent'.args
              cell == activeCells[key]
              legal == /\ isCellInteractable(Game, cell)
                       /\ inventory # NULL
                       /\ cell.token = NULL
          IN  /\ lastEvent'.ret = legal
              /\ ~legal => /\ activeCells'[key].token = cell.token
                           /\ inventory' = inventory
                           /\ points' = points]_vars

----------------------------------------------------------------------------
\* the cells that are active before and after the step
StayingActive == DOMAIN activeCells \cap DOMAIN activeCells'

\* a step of movePlayer, of a drag of the map, or of the "moveend" pass
MoveOrPassStep ==
    \/ lastEvent'.type \in {"move", "drag"} /\ inputs' = inputs + 1
    \/ VisibilityPass

\* a successful pickup, drop or merge by a click on the active cell key
ClickChanges(key) ==
    /\ ClickStep
    /\ lastEvent'.action \in {"pickup", "drop", "merge"}
    /\ lastEvent'.key = key
    /\ ~lastEvent'.ghost

\* C24: the token of a cell that stays active changes only by a successful
\* pickup, drop or merge on that cell.  movePlayer and the pass of
\* updateCellVisibility keep every cell that is active and in the rectangle
\* after the step, with the token object it had, and change neither the
\* inventory nor the points.
C24_TokenFrame ==
    [][/\ \A k \in StayingActive :
             activeCells'[k].token # activeCells[k].token => ClickChanges(k)
       /\ MoveOrPassStep =>
             /\ DOMAIN activeCells \cap ViewRectangleKeys' \subseteq DOMAIN activeCells'
             /\ inventory' = inventory
             /\ points' = points]_vars

\* a pass has despawned cells and has kept a cell whose token was picked
\* up: the cell is still empty, though its position spawns a token
W_C24_TokenFrame ==
    /\ lastEvent = NoInput
    /\ despawnLog # <<>>
    /\ inventory # NULL
    /\ \E k \in modified \cap DOMAIN activeCells :
          /\ activeCells[k].token = NULL
          /\ spawnTokenInCell(Game, activeCells[k].i, activeCells[k].j) # NULL

----------------------------------------------------------------------------
\* the cell of the player, and the larger of the two coordinate differences
\* between it and the cell (i, j)
PlayerCellI == location.lat \div TILE_DEGREES
PlayerCellJ == location.lng \div TILE_DEGREES

Chebyshev(i, j) ==
    LET di == IF i >= PlayerCellI THEN i - PlayerCellI ELSE PlayerCellI - i
        dj == IF j >= PlayerCellJ THEN j - PlayerCellJ ELSE PlayerCellJ - j
    IN  IF di >= dj THEN di ELSE dj

\* C25: shouldSpawnToken(i, j) is false for a cell farther than SPAWN_RADIUS
\* (8) from the player's cell, and otherwise true iff luck("i,j") is below
\* SPAWN_PROBABILITY (0.15); spawnTokenInCell(i, j) returns nothing exactly
\* when shouldSpawnToken is false, and otherwise a token of the value
\* determineTokenValue(i, j).
C25_SpawnDecision ==
    [][DirectCall("spawnTokenInCell") =>
          LET i == lastEvent'.args[1]
              j == lastEvent'.args[2]
              r == lastEvent'.ret
          IN  /\ Chebyshev(i, j) > 8 => ~r.should
              /\ Chebyshev(i, j) <= 8 =>
                    (r.should <=> luck(cellToKey(i, j)) < 15)
              /\ (r.token = NULL) <=> ~r.should
              /\ r.should => ValueOf(r.token) = Token(r.value)]_vars

\* the cell 9,-1, whose spawn roll is 0.03, was refused at 9 cells from the
\* player and gets a token of value 2 once the player is 8 cells from it
W_C25_SpawnDecision ==
    /\ lastEvent.type = "spawnTokenInCell"
    /\ lastEvent.args = <<9, -1>>
    /\ Chebyshev(9, -1) = 8
    /\ lastEvent.ret.should
    /\ ValueOf(lastEvent.ret.token) = Token(2)

----------------------------------------------------------------------------
\* what spawnTokenInCell returns for the cell c in this state
SpawnResult(c) == ValueOf(spawnTokenInCell(Game, c[1], c[2]))

\* C27: two calls of spawnTokenInCell with the same (i, j) and the same
\* player cell return the same result, whatever else has changed between
\* them, and a call changes nothing of the game: inventory, points, active
\* cells and caretaker are as before.
C27_SpawnIdempotent ==
    [][/\ (PlayerCellI' = PlayerCellI /\ PlayerCellJ' = PlayerCellJ) =>
             \A c \in ProbeCells : SpawnResult(c)' = SpawnResult(c)
       /\ DirectCall("spawnTokenInCell") =>
             /\ ValueOf(lastEvent'.ret.token) = SpawnResult(lastEvent'.args)
             /\ lastEvent'.again =>
                   ValueOf(lastEvent'.ret.token) = ValueOf(lastEvent.ret.token)
             /\ inventory' = inventory
             /\ points' = points
             /\ activeCells' = activeCells
             /\ mementos' = mementos]_vars

\* spawnTokenInCell(0, 0) was called twice in a row, after the token of the
\* cell 0,0 had been picked up, and has returned a token
W_C27_SpawnIdempotent ==
    /\ lastEvent.type = "spawnTokenInCell"
    /\ lastEvent.again
    /\ lastEvent.args = <<0, 0>>
    /\ lastEvent.ret.token # NULL
    /\ inventory # NULL
    /\ activeCells["0,0"].token = NULL

----------------------------------------------------------------------------
\* a step in which the function fn is applied to the argument drawn
PureCall(fn) == lastEvent.type = "input" /\ lastEvent'.type = fn

\* the first value of the table 1 (0.6), 2 (0.3), 4 (0.1) whose cumulative
\* mass exceeds the roll r, and 1 if there is none
FirstValueAbove(r) ==
    IF r < 60 THEN 1
    ELSE IF r < 60 + 30 THEN 2
    ELSE IF r < 60 + 30 + 10 THEN 4
    ELSE 1

\* C26: determineTokenValue(i, j) returns, for the roll r = luck("i,j,value"),
\* the first value of the table 1, 2, 4 whose cumulative mass exceeds r, and
\* the value 1 if r is not below the accumulated mass; for every roll below 1
\* the result is one of 1, 2, 4.
C26_ValueDistribution ==
    [][/\ PureCall("walkDistribution") =>
             /\ lastEvent'.ret = FirstValueAbove(lastEvent'.args)
             /\ lastEvent'.ret \in {1, 2, 4}
       /\ PureCall("determineTokenValue") =>
             lastEvent'.ret =
                FirstValueAbove(luck(cellToKey(lastEvent'.args[1],
                                               lastEvent'.args[2]) \o ",value"))]_vars

\* the loop has run to its end for a roll not below the accumulated mass,
\* and the value 1 was returned
W_C26_ValueDistribution ==
    /\ lastEvent.type = "walkDistribution"
    /\ lastEvent.args = 100
    /\ lastEvent.ret = 1

----------------------------------------------------------------------------
\* the tile (i, j) is the square of the world points with
\* i * TILE_DEGREES <= lat < (i + 1) * TILE_DEGREES, and so for j and lng
InTile(p, i, j) ==
    /\ i * 2 <= p[1] /\ p[1] < (i + 1) * 2
    /\ j * 2 <= p[2] /\ p[2] < (j + 1) * 2

\* the bounds (closed on every side) contain the world point p
Contains(bounds, p) ==
    /\ bounds.southWest.lat <= p[1] /\ p[1] <= bounds.northEast.lat
    /\ bounds.southWest.lng <= p[2] /\ p[2] <= bounds.northEast.lng

TileIndices == (-MaxCoordinate - 1)..(MaxCoordinate + 1)

\* C28: for every world point, negative coordinates included, the bounds
\* cellToWorldBounds(worldToCell(lat, lng)) contain the point, and the cell
\* of the point is the one tile the point falls in, so that two points get
\* the same cell iff they fall in the same tile.
C28_CellRoundTrip ==
    [][PureCall("worldToCell") =>
          LET p == lastEvent'.args
              cell == lastEvent'.ret.cell
          IN  /\ Contains(lastEvent'.ret.bounds, p)
              /\ \A i, j \in TileIndices :
                    InTile(p, i, j) <=> (cell.i = i /\ cell.j = j)
              /\ \A q \in WorldPoints :
                    (worldToCell(q[1], q[2]) = cell)
                    <=> (\E i, j \in TileIndices : InTile(p, i, j) /\ InTile(q, i, j))]_vars

\* a point with negative coordinates inside a tile got the cell -2,-1
W_C28_CellRoundTrip ==
    /\ lastEvent.type = "worldToCell"
    /\ lastEvent.args = <<-3, -1>>
    /\ lastEvent.ret.cell = [i |-> -2, j |-> -1]
    /\ lastEvent.ret.bounds.southWest = [lat |-> -4, lng |-> -2]

----------------------------------------------------------------------------
\* C29: isCellInteractable(cell) is true iff the larger of |pi - cell.i| and
\* |pj - cell.j| is at most 3, (pi, pj) being worldToCell of the player's
\* location at the time of the call: a cell at offset (3,3) is in range, a
\* cell at offset (4,0) is not, and after movements of the player the range
\* is centred on the cell the player is in now.
C29_InteractableIsChebyshev ==
    [][DirectCall("isCellInteractable") =>
          (lastEvent'.ret <=> Chebyshev(lastEvent'.args[1], lastEvent'.args[2]) <= 3)]_vars

\* the player has moved one cell north: the cell 4,-1, four rows from the
\* first cell of the player, is in range
W_C29_InteractableIsChebyshev ==
    /\ lastEvent.type = "isCellInteractable"
    /\ lastEvent.args = <<4, -1>>
    /\ lastEvent.ret
    /\ PlayerCellI = 1 /\ PlayerCellJ = -1

----------------------------------------------------------------------------
\* C30: for a key with a snapshot, saving back the token that restoreState
\* has returned, saveState(k, restoreState(k)), leaves hasState(k) true and
\* restoreState(k) returning a token equal to the one it returned before
\* (nothing stays nothing), however often the two calls are repeated.
C30_RestoreThenSaveIsIdempotent ==
    [][(/\ CallStep("saveState")
        /\ lastEvent'.resaved
        /\ lastEvent'.key \in DOMAIN mementos) =>
          /\ hasState(mementos', lastEvent'.key)
          /\ Restored(mementos', lastEvent'.key) = Restored(mementos, lastEvent'.key)
          /\ Restored(mementos', lastEvent'.key) = ValueOf(lastEvent.token)]_vars

\* the fifth call saves back the token restored from the snapshot that the
\* third call had saved
W_C30_RestoreThenSaveIsIdempotent ==
    /\ lastEvent.type = "saveState"
    /\ lastEvent.resaved
    /\ inputs = 5
    /\ lastEvent.token # NULL
    /\ lastEvent.key \in DOMAIN lastEvent.before
    /\ lastEvent.before[lastEvent.key].timestamp = 2
    /\ Restored(mementos, lastEvent.key) = ValueOf(lastEvent.token)

----------------------------------------------------------------------------
\* a call of fn from outside initializeGame has just returned or thrown
OutsideCall(fn) == lastEvent'.type = fn /\ inputs' = inputs + 1

RenderingCalls == {"createCellElement", "updateCellVisualization", "spawnCell"}

\* C31: while the map is not initialized, createCellElement,
\* updateCellVisualization and spawnCell throw "Map not initialized" and
\* leave activeCells, visibleCells and the rest of the game as they were;
\* createCellElement also throws for a cell without bounds; and no cell is
\* active before initializeGame has initialized the map.
C31_UninitializedRenderTarget ==
    /\ [][\A fn \in RenderingCalls :
             (OutsideCall(fn) /\ mapCenter = NULL) =>
                 /\ lastEvent'.ret.error = "Map not initialized"
                 /\ UNCHANGED <<activeCells, visibleCells, ghostCells,
                                inventory, location, points,
                                isVictoryAchieved, mapCenter>>]_vars
    /\ [][(OutsideCall("createCellElement") /\ lastEvent'.args.bounds = NULL) =>
             lastEvent'.ret.error # ""]_vars
    /\ [](mapCenter = NULL => (DOMAIN activeCells = {} /\ visibleCells = {}))

\* spawnCell was called twice before the map was initialized and threw,
\* and no cell is active
W_C31_UninitializedRenderTarget ==
    /\ mapCenter = NULL
    /\ lastEvent.type = "spawnCell"
    /\ lastEvent.again
    /\ lastEvent.ret.error = "Map not initialized"
    /\ DOMAIN activeCells = {}

----------------------------------------------------------------------------
\* the despawned cell objects whose rectangle is on the map
GhostsOnMap == {c \in BagToSet(ghostCells) : c.element # NULL /\ c.element.onMap}

\* C32: the rectangles on the map are the element handles of the active
\* cells: every active cell has its rectangle on the map, and no despawned
\* cell object has one.
C32_RectanglesAreActiveHandles ==
    /\ \A k \in DOMAIN activeCells :
          activeCells[k].element # NULL /\ activeCells[k].element.onMap
    /\ GhostsOnMap = {}

----------------------------------------------------------------------------
\* C33: a click is handled on the cell object registered in activeCells
\* under its key: a despawned cell object is never the target of a pickup,
\* a drop or a merge.
C33_ClickTargetsRegisteredCell ==
    [][ClickStep =>
          \/ lastEvent'.action \notin {"pickup", "drop", "merge"}
          \/ /\ ~lastEvent'.ghost
             /\ lastEvent'.key \in DOMAIN activeCells
             /\ lastEvent'.before = activeCells[lastEvent'.key]]_vars

----------------------------------------------------------------------------
\* C34: the keys of activeCells are gameState.visibleCells in every state,
\* and only a visibility pass (spawnCell, despawnCell) changes either.
C34_ActiveKeysAreVisibleCells ==
    /\ [](DOMAIN activeCells = visibleCells)
    /\ [][~VisibilityPass =>
             /\ DOMAIN activeCells' = DOMAIN activeCells
             /\ visibleCells' = visibleCells]_vars

\* a pass has despawned cells and spawned others, and a click was handled
\* afterwards
W_C34_ActiveKeysAreVisibleCells ==
    /\ DOMAIN despawnLog # {}
    /\ visibleCells \ initializeGame.visibleCells # {}
    /\ DOMAIN activeCells = visibleCells
    /\ lastEvent.type = "click"

----------------------------------------------------------------------------
\* a click that merged the held token into the clicked cell
SuccessfulMerge == ClickStep /\ lastEvent'.action = "merge"

\* C35: the points start at 0; a successful merge adds the value of the
\* token it creates, and no other step (pickup, drop, failed merge,
\* out-of-range click, movement, viewport change, timer callback) changes
\* them: the points are the sum of the values of the tokens created by
\* merges so far, and never decrease.
C35_PointsAreMergeSum ==
    /\ points = 0
    /\ [][IF SuccessfulMerge
          THEN points' = points + lastEvent'.after.token.value
          ELSE points' = points]_vars
    /\ [][points' >= points]_vars

\* a pickup and a merge have been handled, and the points are the value of
\* the token the merge created
W_C35_PointsAreMergeSum ==
    /\ lastEvent.type = "click"
    /\ lastEvent.action = "merge"
    /\ points = lastEvent.after.token.value
    /\ points > 0

----------------------------------------------------------------------------
\* a movement button has been handled
MoveStep == lastEvent'.type = "move" /\ inputs' = inputs + 1

\* the cell of the classroom location
ClassroomCellI == CLASSROOM_LAT \div TILE_DEGREES
ClassroomCellJ == CLASSROOM_LNG \div TILE_DEGREES

\* C36: movePlayer moves the player's cell by one in the axis of the
\* direction (north i+1, south i-1, east j+1, west j-1) and leaves the other
\* axis alone; "center" puts the player in the cell of the classroom; and
\* no step other than movePlayer changes the player's location.
C36_MoveByOneCell ==
    /\ [][MoveStep =>
             LET d == lastEvent'.direction
             IN  /\ d = "north" =>
                        PlayerCellI' = PlayerCellI + 1 /\ PlayerCellJ' = PlayerCellJ
                 /\ d = "south" =>
                        PlayerCellI' = PlayerCellI - 1 /\ PlayerCellJ' = PlayerCellJ
                 /\ d = "east" =>
                        PlayerCellJ' = PlayerCellJ + 1 /\ PlayerCellI' = PlayerCellI
                 /\ d = "west" =>
                        PlayerCellJ' = PlayerCellJ - 1 /\ PlayerCellI' = PlayerCellI
                 /\ d = "center" =>
                        PlayerCellI' = ClassroomCellI /\ PlayerCellJ' = ClassroomCellJ]_vars
    /\ [][~MoveStep => location' = location]_vars

\* the third movement, to the north, has put the player two cells north and
\* one cell west of the classroom
W_C36_MoveByOneCell ==
    /\ lastEvent.type = "move"
    /\ lastEvent.direction = "north"
    /\ inputs = 3
    /\ PlayerCellI = ClassroomCellI + 2
    /\ PlayerCellJ = ClassroomCellJ - 1

----------------------------------------------------------------------------
\* a click that picked up the token of its cell
PickupClick == ClickStep /\ lastEvent'.action = "pickup"

\* the last step was a pickup click, and this step is a click on the same
\* cell object
ClickAfterPickupOnSameCell ==
    /\ lastEvent.type = "click"
    /\ lastEvent.action = "pickup"
    /\ ClickStep
    /\ lastEvent'.key = lastEvent.key
    /\ lastEvent'.ghost = lastEvent.ghost
    /\ lastEvent'.before = lastEvent.after

\* C37: a pickup click on a cell holding a token of value V, with the
\* inventory empty, followed immediately by a click on the same cell: the
\* second click is a drop, and it leaves the cell with a token of value V,
\* the inventory empty, and the points and the victory flag as they were
\* before the pickup (which changes neither).
C37_PickupThenDropRestores ==
    /\ [][PickupClick =>
             /\ inventory = NULL
             /\ lastEvent'.before.token # NULL
             /\ points' = points
             /\ isVictoryAchieved' = isVictoryAchieved]_vars
    /\ [][ClickAfterPickupOnSameCell =>
             /\ lastEvent'.action = "drop"
             /\ ClickedIsTarget(lastEvent')
             /\ ValueOf(lastEvent'.after.token) = ValueOf(lastEvent.before.token)
             /\ inventory' = NULL
             /\ points' = points
             /\ isVictoryAchieved' = isVictoryAchieved]_vars

\* the two clicks handled so far were a pickup and a drop on cell 1,-1, with
\* no callback run in between: the cell holds its token of value 1 again
W_C37_PickupThenDropRestores ==
    /\ inputs = 2
    /\ lastEvent.type = "click"
    /\ lastEvent.action = "drop"
    /\ lastEvent.key = "1,-1"
    /\ ~lastEvent.ghost
    /\ "1,-1" \in DOMAIN activeCells
    /\ activeCells["1,-1"].timers = 2
    /\ ValueOf(activeCells["1,-1"].token) = Token(1)
    /\ inventory = NULL
    /\ points = 0

====
